---------------------------- MODULE Spec2Model ----------------------------
(***************************************************************************)
(* AVA chat front-end: intent router, tool-call orchestrator, plugin       *)
(* registry reload and conversation history, modelled from                 *)
(* src/avaai/chat_page.py, src/avaai/tools.py, src/avaai/chat_manager.py,  *)
(* src/avaai/plugins/*.py and src/pages/14_Plugins.py.                     *)
(*                                                                         *)
(* Text is modelled as a sequence of whitespace-separated tokens.  TLA+    *)
(* strings are atomic, so the character-level operations of the code       *)
(* (lower(), startswith(), substring containment, split("/"), float())     *)
(* are tables over the token vocabulary below.  Russian words of the code  *)
(* are written in Latin transliteration.                                   *)
(***************************************************************************)
EXTENDS Naturals, Integers, Sequences, FiniteSets, TLC

\* Longest prompt, in tokens, that the router specification enumerates.
MaxLen == 4

\* Python's None where the other values are strings.
None == "<None>"

\* An optional number or record: <<>> for None, <<v>> for a value v.
Nothing == <<>>

Just(v) == <<v>>

(***************************************************************************)
(* Token vocabulary.                                                       *)
(***************************************************************************)
CommandTokens == {"/rate", "/weather", "/wiki"}

\* Tokens that may appear anywhere in a prompt.
Words ==
    {"weather", "wiki", "convert", "10", "abc", "USD", "eur", "USD/eur", "to"}

\* Tokens that are only told apart from a plain word at the start of a prompt.
FirstTokens == Words \cup CommandTokens \cup {"who is"}

\* str.lower()
Lower(tok) ==
    CASE tok = "USD" -> "usd"
      [] tok = "USD/eur" -> "usd/eur"
      [] OTHER -> tok

LowerText(text) == [i \in DOMAIN text |-> Lower(text[i])]

\* The keywords and currency names that occur as a substring of a token.
Substrings(tok) ==
    CASE tok \in {"weather", "/weather"} -> {"weather"}
      [] tok \in {"wiki", "/wiki"} -> {"wiki"}
      [] tok = "usd" -> {"usd"}
      [] tok = "eur" -> {"eur"}
      [] tok = "usd/eur" -> {"usd", "eur"}
      [] tok = "dollars" -> {"dollar", "dollars"}
      [] tok = "euro" -> {"eur", "euro"}
      [] tok = "canadian dollars" ->
            {"dollar", "dollars", "canadian dollar", "canadian dollars"}
      [] OTHER -> {}

\* `needle in text`
TextContains(text, needle) ==
    \E i \in DOMAIN text : needle \in Substrings(text[i])

\* text.startswith(prefix), for a prefix that is a whole token of the vocabulary
StartsWith(text, prefix) == Len(text) > 0 /\ text[1] = prefix

\* Tokens matching \d+(?:[.,]\d+)? ; float() accepts exactly these here.
NumTokens == {"10"}

NumValue(tok) == IF tok = "10" THEN 10 ELSE 0

\* float(amount) of _parse_rate_command: TRUE when it does not raise
ParsesAsFloat(tok) == tok \in NumTokens

SubText(text, a, b) == [i \in 1..(b - a + 1) |-> text[a + i - 1]]

(***************************************************************************)
(* Intent Router (chat_page.py 158-344)                                    *)
(***************************************************************************)
WeatherKeywords ==
    {"weather", "forecast", "temperature", "pogoda", "prognoz", "temperatur", "veter"}

is_rate_query_of(prompt) == StartsWith(LowerText(prompt), "/rate")

is_weather_query_of(prompt) ==
    \/ StartsWith(LowerText(prompt), "/weather")
    \/ \E keyword \in WeatherKeywords : TextContains(LowerText(prompt), keyword)

WikiStrictStarts == {"who is", "what is", "kto takoy", "chto takoe"}

WikiKeywords == {"wiki", "wikipedia", "vikipediya"}

_is_wiki_auto(text) ==
    \/ \E s \in WikiStrictStarts : StartsWith(text, s)
    \/ \E k \in WikiKeywords : TextContains(text, k)

\* "BASE/TARGET".split("/", 1)
SlashSplit(tok) ==
    IF tok = "USD/eur" THEN <<"USD", "eur">> ELSE <<tok, "">>

HasSlash(tok) == tok \in {"USD/eur"} \cup CommandTokens

RateResult(base, target, amount, error) ==
    [base |-> base, target |-> target, amount |-> amount, error |-> error]

\* As _parse_rate_command, but an amount that is not a number is dropped silently.
_parse_rate_command_DropsBadAmount(text) ==
    LET parts == Tail(text)
        slash == HasSlash(parts[1])
        base == IF slash THEN SlashSplit(parts[1])[1] ELSE parts[1]
        target ==
            IF slash
            THEN (IF SlashSplit(parts[1])[2] = "" THEN None ELSE SlashSplit(parts[1])[2])
            ELSE (IF Len(parts) > 1 THEN parts[2] ELSE None)
        amount ==
            IF slash
            THEN (IF Len(parts) > 1 THEN parts[2] ELSE None)
            ELSE (IF Len(parts) > 2 THEN parts[3] ELSE None)
    IN  IF parts = <<>>
        THEN RateResult("USD", None, Nothing, None)
        ELSE RateResult(IF base = "" THEN "USD" ELSE base, target,
                        IF amount = None \/ ~ParsesAsFloat(amount) THEN Nothing
                        ELSE Just(NumValue(amount)), None)

\* chat_page.py 195-227
_parse_rate_command(text) ==
    LET parts == Tail(text)
        slash == HasSlash(parts[1])
        base == IF slash THEN SlashSplit(parts[1])[1] ELSE parts[1]
        target ==
            IF slash
            THEN (IF SlashSplit(parts[1])[2] = "" THEN None ELSE SlashSplit(parts[1])[2])
            ELSE (IF Len(parts) > 1 THEN parts[2] ELSE None)
        amount ==
            IF slash
            THEN (IF Len(parts) > 1 THEN parts[2] ELSE None)
            ELSE (IF Len(parts) > 2 THEN parts[3] ELSE None)
    IN  IF parts = <<>>
        THEN RateResult("USD", None, Nothing, None)
        ELSE IF amount # None /\ ~ParsesAsFloat(amount)
             THEN RateResult(IF base = "" THEN "USD" ELSE base, target, Nothing, "Invalid amount.")
             ELSE RateResult(IF base = "" THEN "USD" ELSE base, target,
                             IF amount = None THEN Nothing ELSE Just(NumValue(amount)), None)

\* The keys of `mapping` in insertion order.
MappingOrder == <<"USD", "EUR", "RUB", "GBP", "JPY", "CNY", "CHF", "CAD", "AUD">>

\* The synonyms of each code that the vocabulary can spell.
MappingNames(code) ==
    CASE code = "USD" -> {"usd", "dollar", "dollars", "buck", "bucks"}
      [] code = "EUR" -> {"eur", "euro", "euros"}
      [] code = "RUB" -> {"rub", "ruble", "rubles"}
      [] code = "GBP" -> {"gbp", "pound", "pounds", "sterling"}
      [] code = "JPY" -> {"jpy", "yen"}
      [] code = "CNY" -> {"cny", "yuan", "renminbi"}
      [] code = "CHF" -> {"chf", "franc", "francs"}
      [] code = "CAD" -> {"cad", "canadian dollar", "canadian dollars"}
      [] OTHER -> {"aud", "australian dollar", "australian dollars"}

CodeMentioned(code, text) ==
    \E name \in MappingNames(code) : TextContains(text, name)

\* Codes with a name in the text, in mapping order.
CodesFound(text) ==
    SelectSeq(MappingOrder, LAMBDA code : CodeMentioned(code, text))

_find_code(fragment) ==
    LET found == CodesFound(LowerText(fragment))
    IN  IF found = <<>> THEN None ELSE found[1]

\* re.search of  LEAD \s+ NUMBER \s+ (.+?) \s+ SEP \s+ (.+) : the leftmost lead
\* token followed by a number, then the nearest separator token that leaves a
\* non-empty group on both sides.
PatternStarts(lower, leads, seps) ==
    {i \in DOMAIN lower :
        /\ lower[i] \in leads
        /\ i + 1 <= Len(lower) /\ lower[i + 1] \in NumTokens
        /\ \E j \in (i + 3)..(Len(lower) - 1) : lower[j] \in seps}

Min(S) == CHOOSE x \in S : \A y \in S : x <= y

PatternMatch(lower, leads, seps) ==
    LET starts == PatternStarts(lower, leads, seps)
    IN  IF starts = {} THEN Nothing
        ELSE LET i == Min(starts)
                 j == Min({k \in (i + 3)..(Len(lower) - 1) : lower[k] \in seps})
             IN  Just([amount |-> NumValue(lower[i + 1]),
                       first |-> SubText(lower, i + 2, j - 1),
                       second |-> SubText(lower, j + 1, Len(lower))])

RateContext(base, target, amount) == [base |-> base, target |-> target, amount |-> amount]

_extract_rate_from_text(text) ==
    LET lower == LowerText(text)
        nums == {i \in DOMAIN lower : lower[i] \in NumTokens}
        amount == IF nums = {} THEN Nothing ELSE Just(NumValue(lower[Min(nums)]))
        en_match == PatternMatch(lower, {"how much is"}, {"in"})
        convert_match ==
            PatternMatch(lower, {"convert", "exchange", "konvertiruy", "perevedi"}, {"to", "v"})
        codes_found == CodesFound(lower)
        Codes(m) == <<_find_code(m[1].first), _find_code(m[1].second)>>
    IN  IF en_match # Nothing /\ Codes(en_match)[1] # None /\ Codes(en_match)[2] # None
        THEN Just(RateContext(Codes(en_match)[1], Codes(en_match)[2], Just(en_match[1].amount)))
        ELSE IF convert_match # Nothing /\ Codes(convert_match)[1] # None
                                        /\ Codes(convert_match)[2] # None
        THEN Just(RateContext(Codes(convert_match)[1], Codes(convert_match)[2],
                              Just(convert_match[1].amount)))
        ELSE IF amount # Nothing /\ Len(codes_found) >= 2
        THEN Just(RateContext(codes_found[1], codes_found[2], amount))
        ELSE Nothing

\* As RouterFlags, but is_wiki_auto does not exclude rate and weather queries.
RouterFlags_NoExclusion(prompt) ==
    LET prompt_lower == LowerText(prompt)
        is_rate_query == is_rate_query_of(prompt)
    IN  [is_rate_query |-> is_rate_query,
         is_weather_query |-> is_weather_query_of(prompt),
         is_wiki_command |-> StartsWith(prompt_lower, "/wiki"),
         is_wiki_auto |-> _is_wiki_auto(prompt_lower),
         rate_context |-> IF is_rate_query THEN Nothing ELSE _extract_rate_from_text(prompt)]

\* The flags chat_page computes for a prompt before it picks a branch.
RouterFlags(prompt) ==
    LET prompt_lower == LowerText(prompt)
        is_rate_query == is_rate_query_of(prompt)
        is_weather_query == is_weather_query_of(prompt)
    IN  [is_rate_query |-> is_rate_query,
         is_weather_query |-> is_weather_query,
         is_wiki_command |-> StartsWith(prompt_lower, "/wiki"),
         is_wiki_auto |-> _is_wiki_auto(prompt_lower) /\ ~(is_rate_query \/ is_weather_query),
         rate_context |-> IF is_rate_query THEN Nothing ELSE _extract_rate_from_text(prompt)]

\* As BranchOrder, but the plain-chat code comes before the wiki and weather tests.
BranchOrder_PlainEarly(f) ==
    SelectSeq(<<"rate", "plain", "wiki", "weather">>,
              LAMBDA b :
                  \/ b = "rate" /\ (f.is_rate_query \/ f.rate_context # Nothing)
                  \/ b = "wiki" /\ (f.is_wiki_command \/ f.is_wiki_auto)
                  \/ b = "weather" /\ f.is_weather_query
                  \/ b = "plain")

\* The branches of chat_page whose condition holds, in the order the code tests them.
BranchOrder(f) ==
    SelectSeq(<<"rate", "wiki", "weather", "plain">>,
              LAMBDA b :
                  \/ b = "rate" /\ (f.is_rate_query \/ f.rate_context # Nothing)
                  \/ b = "wiki" /\ (f.is_wiki_command \/ f.is_wiki_auto)
                  \/ b = "weather" /\ f.is_weather_query
                  \/ b = "plain")

\* Each short-circuit branch ends in `return`: only the first one that applies runs.
HandlingPaths(prompt) == {Head(BranchOrder(RouterFlags(prompt)))}

(***************************************************************************)
(* Plugin registry and loader (plugins/registry.py, plugins/loader.py)     *)
(***************************************************************************)
\* The plugin directories in the order os.listdir yields them.
PluginDirs == <<"weather_plugin", "exchangerate_plugin", "wikimedia_plugin">>

\* A plugin object as register reads it: its id attribute ("" when the class
\* has none or an empty one), the name of its class, and its name and version
\* attributes (None when the class has none).
Plugin(id, class_name, name, version) ==
    [id |-> id, class_name |-> class_name, name |-> name, version |-> version]

\* The name attribute of the Plugin class of a plugin directory.
PluginName(dir) ==
    CASE dir = "weather_plugin" -> "Weather Plugin"
      [] dir = "exchangerate_plugin" -> "Exchange Rate Plugin"
      [] dir = "wikimedia_plugin" -> "Wikimedia Plugin"

\* cls() of _import_entrypoint for the plugin.py of a plugin directory: the
\* class is named Plugin and its id is the directory's name.
PluginOf(dir) == Plugin(dir, "Plugin", PluginName(dir), "0.1.0")

\* manifest.get("description", "") of a plugin.json
ManifestDescription == "description of the manifest"

\* The dataclass PluginInfo.
PluginInfo(plugin_id, name, version, enabled, description, instance) ==
    [plugin_id |-> plugin_id, name |-> name, version |-> version, enabled |-> enabled,
     description |-> description, instance |-> instance]

\* PluginRegistry(): _plugins = {}
EmptyRegistry == {}

\* The PluginInfo register builds for a plugin object.
NewInfo(plugin, enabled, description) ==
    LET plugin_id == IF plugin.id # "" THEN plugin.id ELSE plugin.class_name
        name == IF plugin.name # None THEN plugin.name ELSE plugin_id
        version == IF plugin.version # None THEN plugin.version ELSE "0.0.0"
    IN  PluginInfo(plugin_id, name, version, enabled, description, plugin)

\* As register, but an entry already stored under the id is kept next to the
\* new one.
register_KeepsPrior(_plugins, plugin, enabled, description) ==
    _plugins \cup {NewInfo(plugin, enabled, description)}

\* PluginRegistry.register: self._plugins[plugin_id] = PluginInfo(...), the
\* entry stored under plugin_id is replaced.
register(_plugins, plugin, enabled, description) ==
    LET info == NewInfo(plugin, enabled, description)
    IN  {other \in _plugins : other.plugin_id # info.plugin_id} \cup {info}

\* The entry load_plugins leaves for the plugin of a directory, with the
\* enabled flag as it is now.
Registered(dir, enabled) ==
    [NewInfo(PluginOf(dir), TRUE, ManifestDescription) EXCEPT !.enabled = enabled]

\* PluginRegistry.get: Nothing when the id is absent.
registry_get(_plugins, plugin_id) ==
    IF \E info \in _plugins : info.plugin_id = plugin_id
    THEN Just(CHOOSE info \in _plugins : info.plugin_id = plugin_id)
    ELSE Nothing

\* PluginRegistry.enable: nothing happens for an id the registry lacks.
registry_enable(_plugins, plugin_id) ==
    {IF info.plugin_id = plugin_id THEN [info EXCEPT !.enabled = TRUE] ELSE info :
        info \in _plugins}

\* PluginRegistry.disable
registry_disable(_plugins, plugin_id) ==
    {IF info.plugin_id = plugin_id THEN [info EXCEPT !.enabled = FALSE] ELSE info :
        info \in _plugins}

\* What a manifest names as its entrypoint: a module:Class that loads, or one of
\* the ways it fails.
Entrypoints == {"ok", "no separator", "module file missing", "class absent", "module raises"}

\* As _import_entrypoint, but a module that lacks the class yields an instance.
_import_entrypoint_NoClassCheck(entrypoint) ==
    CASE entrypoint = "no separator" ->
            [instance |-> FALSE, error |-> "Invalid entrypoint format", raised |-> FALSE]
      [] entrypoint = "module file missing" ->
            [instance |-> FALSE, error |-> "Module file not found", raised |-> FALSE]
      [] entrypoint = "module raises" ->
            [instance |-> FALSE, error |-> None, raised |-> TRUE]
      [] OTHER -> [instance |-> TRUE, error |-> None, raised |-> FALSE]

\* _import_entrypoint: the plugin instance or an error text; exec_module of a
\* module that fails while loading raises.
_import_entrypoint(entrypoint) ==
    CASE entrypoint = "no separator" ->
            [instance |-> FALSE, error |-> "Invalid entrypoint format", raised |-> FALSE]
      [] entrypoint = "module file missing" ->
            [instance |-> FALSE, error |-> "Module file not found", raised |-> FALSE]
      [] entrypoint = "module raises" ->
            [instance |-> FALSE, error |-> None, raised |-> TRUE]
      [] entrypoint = "class absent" ->
            [instance |-> FALSE, error |-> "Class not found in module", raised |-> FALSE]
      [] OTHER -> [instance |-> TRUE, error |-> None, raised |-> FALSE]

\* The body of the try of load_plugins for the manifest of directory dir: the
\* registry after it, and whether it raised.  json.load raises on a manifest
\* that is not JSON.
load_body(_plugins, manifest, dir) ==
    IF ~manifest.readable THEN [_plugins |-> _plugins, raised |-> TRUE]
    ELSE IF ~manifest.enabled THEN [_plugins |-> _plugins, raised |-> FALSE]
    ELSE LET imported == _import_entrypoint(manifest.entrypoint)
         IN  IF imported.raised THEN [_plugins |-> _plugins, raised |-> TRUE]
             ELSE IF imported.error # None THEN [_plugins |-> _plugins, raised |-> FALSE]
             ELSE [_plugins |-> register(_plugins, PluginOf(dir), TRUE, ManifestDescription),
                   raised |-> FALSE]

\* As load_one, but a manifest saved as disabled is loaded all the same.
load_one_IgnoresEnabled(_plugins, manifest, dir) ==
    load_body(_plugins, [manifest EXCEPT !.enabled = TRUE], dir)._plugins

\* One iteration of the loop of load_plugins: the except clause logs an
\* exception of the body and the loop goes on.
load_one(_plugins, manifest, dir) ==
    load_body(_plugins, manifest, dir)._plugins

RECURSIVE load_from(_, _, _)
load_from(_plugins, files, i) ==
    IF i > Len(PluginDirs) THEN _plugins
    ELSE load_from(load_one(_plugins, files[PluginDirs[i]], PluginDirs[i]), files, i + 1)

\* As load_plugins, but the pass ends at the first manifest whose handling raises.
RECURSIVE load_until_exception(_, _, _)
load_until_exception(_plugins, files, i) ==
    IF i > Len(PluginDirs) THEN _plugins
    ELSE LET out == load_body(_plugins, files[PluginDirs[i]], PluginDirs[i])
         IN  IF out.raised THEN out._plugins
             ELSE load_until_exception(out._plugins, files, i + 1)

load_plugins_AbortsOnException(_plugins, files) == load_until_exception(_plugins, files, 1)

\* load_plugins into a registry: the complete load pass.
load_plugins(_plugins, files) == load_from(_plugins, files, 1)

\* As _get_plugin, but an entry that is present counts whatever its enabled flag.
_get_plugin_IgnoresEnabled(_plugins, plugin_id) ==
    registry_get(_plugins, plugin_id)

(***************************************************************************)
(* Arithmetic tool (tools.py 7-34)                                         *)
(***************************************************************************)
\* A Python number: an int, a float or an imaginary number of magnitude
\* num/den.
Number(kind, num, den) == [kind |-> kind, num |-> num, den |-> den]

IntValue(n) == Number("int", n, 1)

\* The nodes of ast.
Op(name) == [node |-> name]

Constant(value) == [node |-> "Constant", value |-> value]

BinOp(left, op, right) == [node |-> "BinOp", left |-> left, op |-> Op(op), right |-> right]

UnaryOp(op, operand) == [node |-> "UnaryOp", op |-> Op(op), operand |-> operand]

Name(id) == [node |-> "Name", id |-> id, ctx |-> Op("Load")]

Attribute(value, attr) ==
    [node |-> "Attribute", value |-> value, attr |-> attr, ctx |-> Op("Load")]

Call(func, args) == [node |-> "Call", func |-> func, args |-> args]

Expression(body) == [node |-> "Expression", body |-> body]

\* An `expression` argument that is not a str (a JSON number, say).
NotAString == "<not a str>"

\* An expression of 101 characters: "1+1+ ... +1".
LongExpression == "<51 ones joined by +>"

\* The expressions the calculate tool is called with.
Expressions ==
    {"", " ", "1+2", "7//2", "-3", "1/0", "7/2", "1 +", "x", "os.system('x')", "abs(1)",
     "(1).real", "1000000", "1000001", "-1000001", "1e7", "2000000j", "2**2", "2**8",
     "2**9", "2**10", "2**x", "2**-1", NotAString, LongExpression}

\* expression.strip()
Strip(expression) == IF expression = " " THEN "" ELSE expression

\* len(expression) > 100
TooLong(expression) == expression = LongExpression

SyntaxError == [raised |-> TRUE, tree |-> Op("none")]

Parsed(body) == [raised |-> FALSE, tree |-> Expression(body)]

Power(base, exponent) == BinOp(Constant(IntValue(base)), "Pow", exponent)

\* ast.parse(expression, mode="eval")
ast_parse(expression) ==
    CASE expression = "1+2" -> Parsed(BinOp(Constant(IntValue(1)), "Add", Constant(IntValue(2))))
      [] expression = "7//2" -> Parsed(BinOp(Constant(IntValue(7)), "FloorDiv", Constant(IntValue(2))))
      [] expression = "-3" -> Parsed(UnaryOp("USub", Constant(IntValue(3))))
      [] expression = "1/0" -> Parsed(BinOp(Constant(IntValue(1)), "Div", Constant(IntValue(0))))
      [] expression = "7/2" -> Parsed(BinOp(Constant(IntValue(7)), "Div", Constant(IntValue(2))))
      [] expression = "x" -> Parsed(Name("x"))
      [] expression = "os.system('x')" ->
            Parsed(Call(Attribute(Name("os"), "system"), <<Constant([kind |-> "str"])>>))
      [] expression = "abs(1)" -> Parsed(Call(Name("abs"), <<Constant(IntValue(1))>>))
      [] expression = "(1).real" -> Parsed(Attribute(Constant(IntValue(1)), "real"))
      [] expression = "1000000" -> Parsed(Constant(IntValue(1000000)))
      [] expression = "1000001" -> Parsed(Constant(IntValue(1000001)))
      [] expression = "-1000001" -> Parsed(UnaryOp("USub", Constant(IntValue(1000001))))
      [] expression = "1e7" -> Parsed(Constant(Number("float", 10000000, 1)))
      [] expression = "2000000j" -> Parsed(Constant(Number("complex", 2000000, 1)))
      [] expression = "2**2" -> Parsed(Power(2, Constant(IntValue(2))))
      [] expression = "2**8" -> Parsed(Power(2, Constant(IntValue(8))))
      [] expression = "2**9" -> Parsed(Power(2, Constant(IntValue(9))))
      [] expression = "2**10" -> Parsed(Power(2, Constant(IntValue(10))))
      [] expression = "2**x" -> Parsed(Power(2, Name("x")))
      [] expression = "2**-1" -> Parsed(Power(2, UnaryOp("USub", Constant(IntValue(1)))))
      [] OTHER -> SyntaxError

\* ast.iter_child_nodes
iter_child_nodes(n) ==
    CASE n.node = "Expression" -> <<n.body>>
      [] n.node = "BinOp" -> <<n.left, n.op, n.right>>
      [] n.node = "UnaryOp" -> <<n.op, n.operand>>
      [] n.node = "Name" -> <<n.ctx>>
      [] n.node = "Attribute" -> <<n.value, n.ctx>>
      [] n.node = "Call" -> <<n.func>> \o n.args
      [] OTHER -> <<>>

\* ast.walk: breadth first from the queue of nodes todo.
RECURSIVE ast_walk(_)
ast_walk(todo) ==
    IF todo = <<>> THEN <<>>
    ELSE <<Head(todo)>> \o ast_walk(Tail(todo) \o iter_child_nodes(Head(todo)))

allowed_nodes ==
    {"Expression", "BinOp", "UnaryOp", "Num", "Load", "Add", "Sub", "Mult", "Div", "Mod",
     "Pow", "USub", "Constant", "FloorDiv"}

\* The largest literal _safe_eval accepts.
MaxNumber == 1000000

\* isinstance(child, ast.Constant) and isinstance(child.value, (int, float))
IsRealConstant(child) ==
    child.node = "Constant" /\ child.value.kind \in {"int", "float"}

\* As PowCheck, but the operator nodes are passed without a look at the exponent.
PowCheck_Skipped(child) == None

\* tools.py 28-34: child is the operator node ast.Pow, which has no attribute
\* `right`, so reading child.right raises AttributeError.
PowCheck(child) ==
    IF child.node = "Pow" THEN "'Pow' object has no attribute 'right'" ELSE None

\* tools.py 25-27: abs(child.value) > 1_000_000 for an int or a float.
NumberCheck(child) ==
    IF IsRealConstant(child) /\ child.value.num > MaxNumber * child.value.den
    THEN "Number too large" ELSE None

\* The body of the loop over ast.walk(node) for one node: the message of the
\* exception it raises, or None.
NodeError(child) ==
    IF child.node \notin allowed_nodes THEN "Unsupported expression"
    ELSE IF NumberCheck(child) # None THEN NumberCheck(child)
    ELSE PowCheck(child)

\* The exception of the first node of the walk that raises one, or None.
RECURSIVE FirstError(_)
FirstError(nodes) ==
    IF nodes = <<>> THEN None
    ELSE IF NodeError(Head(nodes)) # None THEN NodeError(Head(nodes))
    ELSE FirstError(Tail(nodes))

Evaluated(value) == [raised |-> FALSE, value |-> value, message |-> None]

Raised(message) == [raised |-> TRUE, value |-> IntValue(0), message |-> message]

RECURSIVE Exp(_, _)
Exp(base, n) == IF n = 0 THEN 1 ELSE base * Exp(base, n - 1)

\* A binary operator of Python on two ints: + - * / **, and // and % with a
\* positive divisor.
Apply(op, l, r) ==
    CASE op = "Add" -> Evaluated(IntValue(l.num + r.num))
      [] op = "Sub" -> Evaluated(IntValue(l.num - r.num))
      [] op = "Mult" -> Evaluated(IntValue(l.num * r.num))
      [] op \in {"Div", "FloorDiv", "Mod"} /\ r.num = 0 -> Raised("division by zero")
      [] op = "Div" -> Evaluated(Number("float", l.num, r.num))
      [] op = "FloorDiv" /\ r.num > 0 -> Evaluated(IntValue(l.num \div r.num))
      [] op = "Mod" /\ r.num > 0 -> Evaluated(IntValue(l.num % r.num))
      [] op = "Pow" /\ r.num >= 0 -> Evaluated(IntValue(Exp(l.num, r.num)))
      [] op = "Pow" /\ l.num = 0 -> Raised("0.0 cannot be raised to a negative power")
      [] op = "Pow" -> Evaluated(Number("float", 1, Exp(l.num, 0 - r.num)))

\* eval(compile(node, "<calc>", "eval")) of a tree of allowed nodes
RECURSIVE eval(_)
eval(n) ==
    CASE n.node = "Expression" -> eval(n.body)
      [] n.node = "Constant" -> Evaluated(n.value)
      [] n.node = "UnaryOp" ->
            LET operand == eval(n.operand)
            IN  IF operand.raised THEN operand
                ELSE Evaluated([operand.value EXCEPT !.num = 0 - @])
      [] n.node = "BinOp" ->
            LET l == eval(n.left)
                r == eval(n.right)
            IN  IF l.raised THEN l
                ELSE IF r.raised THEN r
                ELSE Apply(n.op.node, l.value, r.value)

\* _safe_eval: the value of the expression, or the exception raised, and
\* whether eval was reached.
_safe_eval(expression) ==
    IF expression = NotAString THEN Raised("Invalid expression") @@ [evaluated |-> FALSE]
    ELSE IF Strip(expression) = "" THEN Raised("Empty expression") @@ [evaluated |-> FALSE]
    ELSE IF TooLong(Strip(expression))
    THEN Raised("Expression too long") @@ [evaluated |-> FALSE]
    ELSE LET node == ast_parse(Strip(expression))
         IN  IF node.raised THEN Raised("invalid syntax") @@ [evaluated |-> FALSE]
             ELSE IF FirstError(ast_walk(<<node.tree>>)) # None
             THEN Raised(FirstError(ast_walk(<<node.tree>>))) @@ [evaluated |-> FALSE]
             ELSE eval(node.tree) @@ [evaluated |-> TRUE]

(***************************************************************************)
(* Tool Schema Builder and Dispatcher (tools.py)                           *)
(***************************************************************************)
\* _get_weather_plugin, _get_exchange_rate_plugin, _get_wikimedia_plugin
_get_plugin(_plugins, plugin_id) ==
    LET info == registry_get(_plugins, plugin_id)
    IN  IF info = Nothing THEN Nothing
        ELSE IF ~info[1].enabled THEN Nothing
        ELSE info

\* The fixed tool-name to plugin-id mapping of run_tool.
ToolPlugin(name) ==
    CASE name = "get_weather" -> "weather_plugin"
      [] name = "get_exchange_rate" -> "exchangerate_plugin"
      [] name = "get_wiki_summary" -> "wikimedia_plugin"
      [] OTHER -> None

PluginTools == <<"get_weather", "get_exchange_rate", "get_wiki_summary">>

\* get_tools: the names of the tool definitions, in order.
get_tools(_plugins) ==
    <<"get_current_time", "calculate">>
    \o SelectSeq(PluginTools, LAMBDA name : _get_plugin(_plugins, ToolPlugin(name)) # Nothing)

\* A result mapping {"status": "error", "message": message}, as its JSON text.
ErrorResult(message) == <<"status: error", message>>

\* What a plugin's run can return.
PluginResults == {<<"status: ok">>, ErrorResult("plugin failed")}

NotAvailable(plugin_id) ==
    CASE plugin_id = "weather_plugin" -> ErrorResult("Weather plugin is not available.")
      [] plugin_id = "exchangerate_plugin" -> ErrorResult("Exchange rate plugin is not available.")
      [] OTHER -> ErrorResult("Wikimedia plugin is not available.")

\* What the run of a plugin does when it does not return: it raises.
PluginRaises == <<"raises">>

\* The `arguments` of run_tool: a mapping, of which the model keeps the
\* expression (None when the key is absent), or a value that is no mapping.
Arguments(expression) == [mapping |-> TRUE, expression |-> expression]

NotAMapping == [mapping |-> FALSE, expression |-> None]

\* The `arguments` text of a tool call: a JSON object, a JSON array, or text
\* that is not JSON.
JsonObject(expression) == [json |-> "object", expression |-> expression]

JsonArray == [json |-> "array", expression |-> None]

NotJson == [json |-> "invalid", expression |-> None]

\* json.loads(raw_args): JSONDecodeError on text that is not JSON.
json_loads(raw_args) ==
    CASE raw_args.json = "object" -> [raised |-> FALSE, value |-> Arguments(raw_args.expression)]
      [] raw_args.json = "array" -> [raised |-> FALSE, value |-> NotAMapping]
      [] OTHER -> [raised |-> TRUE, value |-> NotAMapping]

Returns(result, ran, evaluated) ==
    [result |-> result, raised |-> FALSE, ran |-> ran, evaluated |-> evaluated]

Raises(message, ran) ==
    [result |-> <<message>>, raised |-> TRUE, ran |-> ran, evaluated |-> FALSE]

\* As PluginBranch, but the plugin is run without a look at the registry.
PluginBranch_NoLookup(plugin_id, arguments, _plugins, plugin_result) ==
    IF ~arguments.mapping THEN Raises("object has no attribute 'get'", None)
    ELSE IF plugin_result = PluginRaises THEN Raises("plugin exception", plugin_id)
    ELSE Returns(plugin_result, plugin_id, FALSE)

\* tools.py 176-203: one of the three plugin branches of run_tool.  The
\* context is built from arguments.get before run is called.
PluginBranch(plugin_id, arguments, _plugins, plugin_result) ==
    IF _get_plugin(_plugins, plugin_id) = Nothing
    THEN Returns(NotAvailable(plugin_id), None, FALSE)
    ELSE IF ~arguments.mapping THEN Raises("object has no attribute 'get'", None)
    ELSE IF plugin_result = PluginRaises THEN Raises("plugin exception", plugin_id)
    ELSE Returns(plugin_result, plugin_id, FALSE)

\* run_tool: the result mapping (or the exception raised), the plugin whose
\* run was invoked, if any, and whether an expression was evaluated.
\* plugin_result is what that run returns or PluginRaises.
run_tool(name, arguments, _plugins, plugin_result) ==
    CASE name = "get_current_time" -> Returns(<<"time">>, None, FALSE)
      [] name = "calculate" ->
            IF ~arguments.mapping THEN Raises("object has no attribute 'get'", None)
            ELSE LET out == _safe_eval(IF arguments.expression = None THEN ""
                                       ELSE arguments.expression)
                 IN  IF out.raised THEN Returns(ErrorResult(out.message), None, out.evaluated)
                     ELSE Returns(<<"result", out.value>>, None, out.evaluated)
      [] ToolPlugin(name) # None ->
            PluginBranch(ToolPlugin(name), arguments, _plugins, plugin_result)
      [] OTHER -> Raises("Unknown tool", None)

\* json.dumps of a number: its digits; TypeError for an imaginary number.
JsonNumber(value) ==
    IF value.kind = "int" THEN <<ToString(value.num)>>
    ELSE <<ToString(value.num), "/", ToString(value.den)>>

\* json.dumps(result): the JSON text of a result mapping, TypeError when a
\* value of it has no JSON form.
json_dumps(result) ==
    IF result[1] = "result"
    THEN IF result[2].kind = "complex" THEN [raised |-> TRUE, text |-> <<>>]
         ELSE [raised |-> FALSE, text |-> <<"result">> \o JsonNumber(result[2])]
    ELSE [raised |-> FALSE, text |-> result]

\* As ToolMessage, but the id of the call is not carried over.
ToolMessage_NoId(tool_call, result, ran) ==
    [raised |-> json_dumps(result).raised,
     role |-> "tool",
     tool_call_id |-> <<"call", 0>>,
     name |-> tool_call.function.name,
     content |-> json_dumps(result).text,
     ran |-> ran]

\* tools.py 222-227: the entry returned; json.dumps is outside the try, so
\* its exception leaves tool_call_to_message.
ToolMessage(tool_call, result, ran) ==
    [raised |-> json_dumps(result).raised,
     role |-> "tool",
     tool_call_id |-> tool_call.id,
     name |-> tool_call.function.name,
     content |-> json_dumps(result).text,
     ran |-> ran]

\* tool_call_to_message: arguments that are not JSON become an empty mapping
\* and an exception of run_tool becomes an error result.
tool_call_to_message(tool_call, _plugins, plugin_result) ==
    LET name == tool_call.function.name
        loaded == json_loads(tool_call.function.arguments)
        args == IF loaded.raised THEN Arguments(None) ELSE loaded.value
        out == run_tool(name, args, _plugins, plugin_result)
    IN  ToolMessage(tool_call,
                    IF out.raised THEN ErrorResult(out.result[1]) ELSE out.result,
                    out.ran)

(***************************************************************************)
(* ChatManager (chat_manager.py)                                           *)
(***************************************************************************)
\* A dict argument that is None or empty.
NoDict == <<>>

_system_message == [role |-> "system", content |-> <<"system_prompt">>]

\* add_message: metadata and api_fields are stored only when truthy.
add_message(history, role, content, metadata, api_fields) ==
    Append(history,
        IF metadata # NoDict /\ api_fields # NoDict
        THEN [role |-> role, content |-> content, metadata |-> metadata, api_fields |-> api_fields]
        ELSE IF metadata # NoDict
        THEN [role |-> role, content |-> content, metadata |-> metadata]
        ELSE IF api_fields # NoDict
        THEN [role |-> role, content |-> content, api_fields |-> api_fields]
        ELSE [role |-> role, content |-> content])

\* An element of a loaded message list that is not a dict.
NotADict == [scalar |-> "text"]

\* isinstance(entry, dict)
IsDict(entry) == "scalar" \notin DOMAIN entry

\* entry.get(key)
Get(entry, key) == IF key \in DOMAIN entry THEN entry[key] ELSE None

\* isinstance(entry, dict) and entry.get("role") == "system"
IsSystemEntry(entry) == IsDict(entry) /\ Get(entry, "role") = "system"

\* As FormatEntry, but the whole entry is copied into the message.
FormatEntry_WholeEntry(entry) ==
    IF "api_fields" \in DOMAIN entry
    THEN [k \in DOMAIN entry \cup DOMAIN entry.api_fields |->
            IF k \in DOMAIN entry.api_fields THEN entry.api_fields[k] ELSE entry[k]]
    ELSE entry

\* msg = {role: entry.get("role"), content: entry.get("content")};
\* msg.update(api_fields)
FormatEntry(entry) ==
    IF "api_fields" \in DOMAIN entry
    THEN [k \in {"role", "content"} \cup DOMAIN entry.api_fields |->
            IF k \in DOMAIN entry.api_fields THEN entry.api_fields[k] ELSE Get(entry, k)]
    ELSE [role |-> Get(entry, "role"), content |-> Get(entry, "content")]

get_formatted_messages(history) == [i \in DOMAIN history |-> FormatEntry(history[i])]

\* As _ensure_system_prompt, but a history that is not empty is left as it is.
_ensure_system_prompt_OnlyWhenEmpty(history) ==
    IF history = <<>> THEN <<_system_message>> ELSE history

\* _ensure_system_prompt: an empty history gets the system message; when the
\* first entry is no system entry, the first system entry found (or the
\* system message) goes first and every other system entry is dropped.
_ensure_system_prompt(history) ==
    IF history = <<>> THEN <<_system_message>>
    ELSE IF ~IsSystemEntry(history[1])
    THEN LET systems == SelectSeq(history, IsSystemEntry)
             system_entry == IF systems # <<>> THEN Head(systems) ELSE _system_message
             remaining == SelectSeq(history, LAMBDA entry : ~IsSystemEntry(entry))
         IN  <<system_entry>> \o remaining
    ELSE history

\* clear_conversation
clear_conversation(history) == <<_ensure_system_prompt(history)[1]>>

\* The `data` of load_from_data: a mapping whose "messages" is this list (an
\* absent key reads as the empty list), or one whose "messages" is no list.
Data(messages) == [list |-> TRUE, messages |-> messages]

NoMessageList == [list |-> FALSE, messages |-> <<>>]

\* load_from_data: the list replaces the history, then _ensure_system_prompt.
load_from_data(history, data) ==
    _ensure_system_prompt(IF data.list THEN data.messages ELSE history)

\* An image part whose data URL is longer than max_bytes, and what
\* strip_image_data_from_messages leaves of it.
LargeImage == <<"data:image (large)">>

Omitted == <<"[omitted]">>

\* strip_image_data_from_messages: a copy of each message, in order, large
\* image data replaced; msg.get raises on an element that is not a dict.
strip_image_data_from_messages(messages) ==
    [raised |-> \E i \in DOMAIN messages : ~IsDict(messages[i]),
     messages |-> [i \in DOMAIN messages |->
                     IF "content" \in DOMAIN messages[i] /\ messages[i].content = LargeImage
                     THEN [messages[i] EXCEPT !.content = Omitted]
                     ELSE messages[i]]]

\* to_dict(compact)
to_dict(history, compact) ==
    IF compact
    THEN [raised |-> strip_image_data_from_messages(history).raised,
          data |-> Data(strip_image_data_from_messages(history).messages)]
    ELSE [raised |-> FALSE, data |-> Data(history)]

\* safe_json_dumps(data): the JSON text of the data.
safe_json_dumps(data) == [json_text_of |-> data]

\* json.load(handle)
json_load(text) == text.json_text_of

(***************************************************************************)
(* State                                                                   *)
(***************************************************************************)
\* Chat turns per behaviour.
MaxTurns == 2

\* Tool calls in one model response.
MaxToolCalls == 2

\* Reloads per behaviour.
MaxReloads == 2

Models == {"model_a", "model_b"}

\* References to PluginRegistry objects: shared state, a turn and a reload
\* hold at most one each.
RegRefs == {1, 2, 3}

VARIABLES
    \* st.session_state
    enable_tools, use_streaming, selected_model, tools_unsupported_models,
    plugin_registry,
    \* objects: PluginRegistry._plugins by reference, ChatManager.conversation_history
    heap, conversation_history,
    \* plugin.json of each plugin directory
    manifests,
    \* the chat_page script run of the current turn and its locals
    pc, prompt, paths, local_registry, tools_payload, tools_disabled, messages_for_api,
    response,
    \* what the turn did: requests sent to the provider, exceptions the
    \* client raised, plugin runs, schemas built, assistant-side renders
    requests, exceptions, plugin_runs, schemas_built, rendered,
    turns,
    \* the Reload button of pages/14_Plugins.py and its locals
    reload_pc, new_registry, reload_i, reloads,
    \* a direct call of a function of the library modules, and what it
    \* returned or raised
    called, returned,
    \* st.session_state of the admin pages, and time.time()
    admin_authenticated, admin_failed_attempts, admin_lock_until, now

admin_vars == <<admin_authenticated, admin_failed_attempts, admin_lock_until, now>>

session_vars ==
    <<enable_tools, use_streaming, selected_model, tools_unsupported_models, plugin_registry,
      admin_vars>>

turn_locals ==
    <<prompt, paths, local_registry, tools_payload, tools_disabled, messages_for_api, response>>

turn_io == <<requests, exceptions, plugin_runs, schemas_built, rendered>>

reload_vars == <<reload_pc, new_registry, reload_i, reloads>>

lib_vars == <<called, returned>>

vars ==
    <<session_vars, heap, conversation_history, manifests, pc, turn_locals, turn_io,
      turns, reload_vars, lib_vars>>

\* tools=None
NoTools == <<>>

\* A provider response: the content and the tool_calls of choices[0].message.
Response(content, tool_calls) == [content |-> content, tool_calls |-> tool_calls]

NoResponse == Response(<<>>, <<>>)

NoRef == 0

\* A plugin.json that parses, with its enabled flag and its entrypoint.
Manifest(enabled, entrypoint) ==
    [readable |-> TRUE, enabled |-> enabled, entrypoint |-> entrypoint]

\* A plugin.json whose content is not JSON.
MalformedManifest == [readable |-> FALSE, enabled |-> TRUE, entrypoint |-> "ok"]

InitManifests == [dir \in {PluginDirs[i] : i \in DOMAIN PluginDirs} |-> Manifest(TRUE, "ok")]

\* No library function has been called directly.
NoCall == [op |-> "none"]

\* init_app_state over the manifests `files`: a registry loaded from them, a
\* ChatManager with the system prompt; chat_page's setdefault values of the
\* settings.
InitState(files) ==
    /\ enable_tools \in BOOLEAN
    /\ use_streaming \in BOOLEAN
    /\ selected_model \in Models
    /\ tools_unsupported_models = <<>>
    /\ plugin_registry = 1
    /\ manifests = files
    /\ heap = [r \in RegRefs |->
                 IF r = 1 THEN load_plugins(EmptyRegistry, files) ELSE EmptyRegistry]
    /\ conversation_history = <<_system_message>>
    /\ pc = "Idle"
    /\ prompt = <<>>
    /\ paths = {}
    /\ local_registry = NoRef
    /\ tools_payload = NoTools
    /\ tools_disabled = FALSE
    /\ messages_for_api = <<>>
    /\ response = NoResponse
    /\ requests = <<>>
    /\ exceptions = <<>>
    /\ plugin_runs = <<>>
    /\ schemas_built = 0
    /\ rendered = <<>>
    /\ turns = 0
    /\ reload_pc = "idle"
    /\ new_registry = NoRef
    /\ reload_i = 1
    /\ reloads = 0
    /\ called = NoCall
    /\ returned = NoCall
    /\ admin_authenticated = FALSE
    /\ admin_failed_attempts = 0
    /\ admin_lock_until = 0
    /\ now = 1

\* The application starts with every plugin's manifest enabled and loadable.
Init == InitState(InitManifests)

(***************************************************************************)
(* Settings page (pages/15_Settings.py) and model selection                *)
(***************************************************************************)
SetEnableTools ==
    /\ pc = "Idle"
    /\ enable_tools' = ~enable_tools
    /\ UNCHANGED admin_vars
    /\ UNCHANGED <<use_streaming, selected_model, tools_unsupported_models, plugin_registry,
                   heap, conversation_history, manifests, pc, turn_locals, turn_io, turns,
                   reload_vars>>
    /\ UNCHANGED lib_vars

SetUseStreaming ==
    /\ pc = "Idle"
    /\ use_streaming' = ~use_streaming
    /\ UNCHANGED admin_vars
    /\ UNCHANGED <<enable_tools, selected_model, tools_unsupported_models, plugin_registry,
                   heap, conversation_history, manifests, pc, turn_locals, turn_io, turns,
                   reload_vars>>
    /\ UNCHANGED lib_vars

SelectModel ==
    /\ pc = "Idle"
    /\ \E m \in Models \ {selected_model} : selected_model' = m
    /\ UNCHANGED admin_vars
    /\ UNCHANGED <<enable_tools, use_streaming, tools_unsupported_models, plugin_registry,
                   heap, conversation_history, manifests, pc, turn_locals, turn_io, turns,
                   reload_vars>>
    /\ UNCHANGED lib_vars

(***************************************************************************)
(* chat_page: one script run per submitted prompt                          *)
(***************************************************************************)
Request(tools, stream, messages) == [tools |-> tools, stream |-> stream, messages |-> messages]

\* The two-message prompt of the comment request of a short-circuit branch.
CommentMessages ==
    <<[role |-> "system", content |-> <<"comment_system">>],
      [role |-> "user", content |-> <<"comment_user">>]>>

Render(kind, text) == [kind |-> kind, text |-> text]

\* The short-circuit branches end alike: on an "ok" result one comment request
\* without tools (its failure is swallowed), then the answer is appended and
\* rendered, and the script returns.
ShortCircuit(result, ran, ok_text, error_label, comment_ok) ==
    LET ok == result[1] = "status: ok"
        response_text ==
            IF ok THEN (IF comment_ok THEN <<ok_text, "_AVA:_ comment">> ELSE <<ok_text>>)
            ELSE <<error_label>> \o Tail(result)
    IN  /\ requests' = IF ok THEN <<Request(NoTools, FALSE, CommentMessages)>> ELSE <<>>
        /\ exceptions' = IF ok /\ ~comment_ok THEN <<"Read timed out">> ELSE <<>>
        /\ plugin_runs' = IF ran = None THEN <<>> ELSE <<ran>>
        /\ conversation_history' =
               add_message(conversation_history, "assistant", response_text, NoDict, NoDict)
        /\ rendered' = <<Render("answer", response_text)>>
        /\ schemas_built' = 0
        /\ pc' = "Idle"
        /\ local_registry' = NoRef
        /\ UNCHANGED <<tools_payload, tools_disabled, messages_for_api, response,
                       tools_unsupported_models>>

\* chat_page.py 344-408
RateBranch(p, f, registry, plugin_result, comment_ok) ==
    LET parsed ==
            IF f.is_rate_query THEN _parse_rate_command(p)
            ELSE RateResult(f.rate_context[1].base, f.rate_context[1].target,
                            f.rate_context[1].amount, None)
        plugin_info == registry_get(registry, "exchangerate_plugin")
        runs == parsed.error = None /\ plugin_info # Nothing /\ plugin_info[1].enabled
        rate_result ==
            IF parsed.error # None THEN ErrorResult(parsed.error)
            ELSE IF ~runs THEN NotAvailable("exchangerate_plugin")
            ELSE plugin_result
    IN  ShortCircuit(rate_result, IF runs THEN "exchangerate_plugin" ELSE None,
                     "rate response_text", "Rate error:", comment_ok)

\* chat_page.py 410-491
WikiBranch(p, f, registry, plugin_result, comment_ok) ==
    LET query == IF f.is_wiki_command THEN Tail(p) ELSE p
        plugin_info == registry_get(registry, "wikimedia_plugin")
        runs == query # <<>> /\ plugin_info # Nothing /\ plugin_info[1].enabled
        wiki_result ==
            IF query = <<>> THEN ErrorResult("Query is required.")
            ELSE IF ~runs THEN NotAvailable("wikimedia_plugin")
            ELSE plugin_result
    IN  ShortCircuit(wiki_result, IF runs THEN "wikimedia_plugin" ELSE None,
                     "wiki title and summary", "Wiki error:", comment_ok)

\* chat_page.py 493-560: the entry's enabled flag is not consulted here.
WeatherBranch(p, f, registry, plugin_result, comment_ok) ==
    LET plugin == registry_get(registry, "weather_plugin")
        runs == plugin # Nothing
        weather_result == IF ~runs THEN NotAvailable("weather_plugin") ELSE plugin_result
    IN  ShortCircuit(weather_result, IF runs THEN "weather_plugin" ELSE None,
                     "weather response_text", "Weather error:", comment_ok)

\* As FirstRequestTools, but the unsupported list is not consulted.
FirstRequestTools_IgnoreList(enabled, model, unsupported, registry) ==
    IF enabled
    THEN [tools |-> get_tools(registry), tools_disabled |-> FALSE, built |-> 1]
    ELSE [tools |-> NoTools, tools_disabled |-> FALSE, built |-> 0]

\* chat_page.py 670-678: the tools of the first request and tools_disabled.
FirstRequestTools(enabled, model, unsupported, registry) ==
    IF enabled /\ (\E i \in DOMAIN unsupported : unsupported[i] = model)
    THEN [tools |-> NoTools, tools_disabled |-> TRUE, built |-> 0]
    ELSE IF enabled
    THEN [tools |-> get_tools(registry), tools_disabled |-> FALSE, built |-> 1]
    ELSE [tools |-> NoTools, tools_disabled |-> FALSE, built |-> 0]

\* chat_page.py 651-654: whether the turn streams.
StreamsTurn(enabled, streaming, is_weather_query) ==
    IF enabled /\ streaming /\ is_weather_query THEN FALSE ELSE streaming

\* As FirstRequest, but the tools go into the streamed payload as well.
FirstRequest_ToolsInStream(streams, first, messages) ==
    Request(first.tools, streams, messages)

\* chat_page.py 654-682: the streamed payload has no tools key; the other
\* request carries the tools decided for the turn.
FirstRequest(streams, first, messages) ==
    IF streams THEN Request(NoTools, TRUE, messages)
    ELSE Request(first.tools, FALSE, messages)

\* chat_page.py 562-683: the user entry is appended and the first request sent.
PlainBranch(p, f, registry) ==
    LET history == add_message(conversation_history, "user", p,
                               [attachments |-> <<>>], NoDict)
        messages == get_formatted_messages(history)
        first == FirstRequestTools(enable_tools, selected_model,
                                   tools_unsupported_models, registry)
        streams == StreamsTurn(enable_tools, use_streaming, f.is_weather_query)
    IN  /\ conversation_history' = history
        /\ messages_for_api' = messages
        /\ plugin_runs' = <<>>
        /\ exceptions' = <<>>
        /\ rendered' = <<>>
        /\ local_registry' = plugin_registry
        /\ response' = NoResponse
        /\ requests' = <<FirstRequest(streams, first, messages)>>
        /\ IF streams
           THEN /\ tools_payload' = NoTools
                /\ tools_disabled' = FALSE
                /\ schemas_built' = 0
                /\ pc' = "Streaming"
           ELSE /\ tools_payload' = first.tools
                /\ tools_disabled' = first.tools_disabled
                /\ schemas_built' = first.built
                /\ pc' = "RequestSent"
        /\ UNCHANGED tools_unsupported_models

\* A prompt is submitted: the script reads the shared registry once (line 66),
\* the Intent Router picks the branch, and the branch runs up to its return or
\* up to the first request of the plain-chat path.
Submit(p, plugin_result, comment_ok) ==
    /\ pc = "Idle"
    /\ turns < MaxTurns
    /\ turns' = turns + 1
    /\ prompt' = p
    /\ paths' = HandlingPaths(p)
    /\ LET f == RouterFlags(p)
           registry == heap[plugin_registry]
           path == Head(BranchOrder(f))
       IN  CASE path = "rate" -> RateBranch(p, f, registry, plugin_result, comment_ok)
             [] path = "wiki" -> WikiBranch(p, f, registry, plugin_result, comment_ok)
             [] path = "weather" -> WeatherBranch(p, f, registry, plugin_result, comment_ok)
             [] OTHER -> PlainBranch(p, f, registry)
    /\ UNCHANGED admin_vars
    /\ UNCHANGED <<enable_tools, use_streaming, selected_model, plugin_registry, heap,
                   manifests, reload_vars>>
    /\ UNCHANGED lib_vars

\* Python drops a PluginRegistry object that nothing refers to any more.
Collected(h, live) == [r \in RegRefs |-> IF r \in live THEN h[r] ELSE EmptyRegistry]

\* The script run ends: its locals go away.
EndTurn ==
    /\ pc' = "Idle"
    /\ local_registry' = NoRef
    /\ heap' = Collected(heap, {plugin_registry, new_registry})

\* chat_page.py 711-725: the answer is written and appended.
FinalAnswer(full_response) ==
    /\ conversation_history' =
           add_message(conversation_history, "assistant", full_response, NoDict, NoDict)
    /\ rendered' = Append(rendered, Render("answer", full_response))
    /\ EndTurn

\* As ErrorTerminal, but nothing is shown for the exception.
ErrorTerminal_Silent(message) ==
    /\ EndTurn
    /\ UNCHANGED <<conversation_history, rendered>>

\* config.api_key
ApiKey == "sk-or-key"

\* The text of an exception of the client that quotes the key of the request.
KeyedError == "401 Client Error: invalid key sk-or-key"

\* str(exc) as a sequence of pieces, the key being a piece of its own.
ErrorText(message) ==
    IF message = KeyedError THEN <<"401 Client Error: invalid key", ApiKey>>
    ELSE <<message>>

\* _sanitize_error: text.replace(api_key, "[redacted]") unless the key is
\* empty.
_sanitize_error(text, api_key) ==
    IF api_key = "" THEN text
    ELSE [i \in DOMAIN text |-> IF text[i] = api_key THEN "[redacted]" ELSE text[i]]

\* chat_page.py 727-741: the except branch of the turn.
ErrorTerminal(message) ==
    /\ rendered' = Append(rendered,
                          Render("error", _sanitize_error(ErrorText(message), ApiKey)))
    /\ EndTurn
    /\ UNCHANGED conversation_history

\* Texts of the exceptions the client raises.
ProviderErrors ==
    {"400 Client Error: tool_choice is not supported",
     "404 Client Error: No endpoints found that support tools",
     "Read timed out",
     KeyedError}

\* `needle in message`, for the two needles the code looks for
Mentions(message, needle) ==
    \/ needle = "tool_choice" /\ message = "400 Client Error: tool_choice is not supported"
    \/ needle = "tools" /\ message = "404 Client Error: No endpoints found that support tools"

\* As IsToolsRejection, but only the text "tool_choice" is looked for.
IsToolsRejection_OnlyToolChoice(payload, message) ==
    payload # NoTools /\ Mentions(message, "tool_choice")

\* chat_page.py 622: the except branch of _chat_completion_request retries.
IsToolsRejection(payload, message) ==
    payload # NoTools /\ (Mentions(message, "tool_choice") \/ Mentions(message, "tools"))

\* chat_page.py 623-624
MarkUnsupported(unsupported, model) ==
    IF \E i \in DOMAIN unsupported : unsupported[i] = model
    THEN unsupported
    ELSE Append(unsupported, model)

\* What the generator of _stream_completion yields: deltas, and on an exception
\* the chunk "[Error: " + str(e) + "]" after whatever deltas arrived; the
\* exception's text comes last here.
StreamOutcomes ==
    {<<"delta">>, <<"[Error:", "Read timed out">>, <<"delta", "[Error:", "Read timed out">>,
     <<"[Error:", KeyedError>>}

\* Whether the stream ended in the error chunk.
StreamFailed(chunks) == Len(chunks) > 1 /\ chunks[Len(chunks) - 1] = "[Error:"

\* full_response: the chunks joined (openrouter_client.py 165-167 writes
\* str(e) into the chunk as it is).
StreamText(chunks) ==
    IF StreamFailed(chunks)
    THEN SubSeq(chunks, 1, Len(chunks) - 1) \o ErrorText(chunks[Len(chunks)])
    ELSE chunks

\* chat_page.py 654-667, 725: the stream is consumed and its text appended.
StreamEnds(chunks) ==
    /\ pc = "Streaming"
    /\ exceptions' = IF StreamFailed(chunks) THEN Append(exceptions, chunks[Len(chunks)])
                     ELSE exceptions
    /\ FinalAnswer(StreamText(chunks))
    /\ UNCHANGED <<session_vars, manifests, prompt, paths, tools_payload, tools_disabled,
                   messages_for_api, response, requests, plugin_runs, schemas_built, turns,
                   reload_vars>>
    /\ UNCHANGED lib_vars

\* The client raises inside _chat_completion_request (chat_page.py 620-646):
\* a tools rejection is retried at once without tools, anything else is re-raised.
RequestFails(message) ==
    /\ pc \in {"RequestSent", "FollowupSent"}
    /\ exceptions' = Append(exceptions, message)
    /\ IF IsToolsRejection(tools_payload, message)
       THEN /\ tools_unsupported_models' =
                   MarkUnsupported(tools_unsupported_models, selected_model)
            /\ requests' = Append(requests, Request(NoTools, FALSE, messages_for_api))
            /\ tools_payload' = NoTools
            /\ pc' = IF pc = "RequestSent" THEN "RequestSentNoTools" ELSE "FollowupSentNoTools"
            /\ UNCHANGED <<conversation_history, rendered, heap, local_registry>>
       ELSE /\ ErrorTerminal(message)
            /\ UNCHANGED <<tools_unsupported_models, requests, tools_payload>>
    /\ UNCHANGED admin_vars
    /\ UNCHANGED <<enable_tools, use_streaming, selected_model, plugin_registry, manifests,
                   prompt, paths, tools_disabled, messages_for_api, response, plugin_runs,
                   schemas_built, turns, reload_vars>>
    /\ UNCHANGED lib_vars

\* The retry raises inside the except branch: the exception leaves
\* _chat_completion_request.
RetryFails(message) ==
    /\ pc \in {"RequestSentNoTools", "FollowupSentNoTools"}
    /\ exceptions' = Append(exceptions, message)
    /\ ErrorTerminal(message)
    /\ UNCHANGED <<session_vars, manifests, prompt, paths, tools_payload, tools_disabled,
                   messages_for_api, response, requests, plugin_runs, schemas_built, turns,
                   reload_vars>>
    /\ UNCHANGED lib_vars

\* The tool a model response calls in its i-th call: a plugin tool, a built-in
\* tool, a name run_tool does not know, and so on in turn.
ToolCallNames == <<"get_weather", "calculate", "lookup">>

\* The i-th call of a response whose calculate calls carry `expression` (None:
\* the arguments are the empty object).
ToolCallWith(i, expression) ==
    LET name == ToolCallNames[((i - 1) % Len(ToolCallNames)) + 1]
    IN  [id |-> <<"call", i>>,
         function |-> [name |-> name,
                       arguments |-> JsonObject(IF name = "calculate" THEN expression
                                                ELSE None)]]

ToolCall(i) == ToolCallWith(i, None)

\* The expressions of the calculate calls of a response: none, or one whose
\* value json.dumps cannot write.
CallExpressions == {None, "2000000j"}

\* The tool_calls lists of the responses: n calls, for each n up to the bound.
ToolCallLists ==
    {[i \in 1..n |-> ToolCallWith(i, expression)] :
        n \in 0..MaxToolCalls, expression \in CallExpressions}

\* The first call from the i-th on whose tool_call_to_message raises, 0 when
\* none does.
RECURSIVE FirstRaising(_, _, _, _)
FirstRaising(tool_calls, i, registry, plugin_result) ==
    IF i > Len(tool_calls) THEN 0
    ELSE IF tool_call_to_message(tool_calls[i], registry, plugin_result).raised THEN i
    ELSE FirstRaising(tool_calls, i + 1, registry, plugin_result)

\* The calls of the loop of chat_page.py 694-707 that return: all of them, or
\* those before the first that raises.
Returning(tool_calls, registry, plugin_result) ==
    LET k == FirstRaising(tool_calls, 1, registry, plugin_result)
    IN  IF k = 0 THEN tool_calls ELSE SubSeq(tool_calls, 1, k - 1)

\* chat_page.py 694-707: the tool entries of the calls from the i-th on.
RECURSIVE RunToolCalls(_, _, _, _, _)
RunToolCalls(history, tool_calls, i, registry, plugin_result) ==
    IF i > Len(tool_calls) THEN history
    ELSE LET tool_message == tool_call_to_message(tool_calls[i], registry, plugin_result)
         IN  RunToolCalls(
                 add_message(history, "tool", tool_message.content, [hidden |-> TRUE],
                             [tool_call_id |-> tool_message.tool_call_id,
                              name |-> tool_message.name]),
                 tool_calls, i + 1, registry, plugin_result)

\* The plugins whose run the calls invoke, in order.
RECURSIVE PluginsRun(_, _, _)
PluginsRun(tool_calls, i, registry) ==
    IF i > Len(tool_calls) THEN <<>>
    ELSE LET ran == tool_call_to_message(tool_calls[i], registry, <<"status: ok">>).ran
         IN  (IF ran = None THEN <<>> ELSE <<ran>>) \o PluginsRun(tool_calls, i + 1, registry)

\* As ToolCallsToRun, but tools_disabled is not consulted.
ToolCallsToRun_IgnoreDisabled(disabled, resp) == resp.tool_calls

\* chat_page.py 686: the tool calls the turn acts on.
ToolCallsToRun(disabled, resp) == IF disabled THEN <<>> ELSE resp.tool_calls

\* chat_page.py 66, 695-698: the registry the Dispatcher is given.
DispatchRegistry == heap[local_registry]

\* chat_page.py 687-725: what follows the response's tool calls.  `raising` is
\* the first call whose tool_call_to_message raises (0: none), `history` the
\* conversation after the placeholder and the entries of the calls that
\* returned.  An exception ends the loop over the tool calls in the except
\* branch of the turn (727-741), after the entries already appended.
AfterResponse(resp, tool_calls, raising, history) ==
    IF tool_calls = <<>>
    THEN /\ FinalAnswer(resp.content)
         /\ UNCHANGED <<plugin_runs, messages_for_api, requests, tools_payload>>
    ELSE /\ conversation_history' = history
         /\ plugin_runs' = plugin_runs
                \o PluginsRun(SubSeq(tool_calls, 1,
                                     IF raising = 0 THEN Len(tool_calls) ELSE raising),
                              1, DispatchRegistry)
         /\ IF raising = 0
            THEN /\ messages_for_api' = get_formatted_messages(history)
                 /\ requests' = Append(requests, Request(NoTools, FALSE, messages_for_api'))
                 /\ tools_payload' = NoTools
                 /\ pc' = "FollowupSent"
                 /\ UNCHANGED <<rendered, heap, local_registry>>
            ELSE /\ rendered' = Append(rendered, Render("error", <<"not JSON serializable">>))
                 /\ EndTurn
                 /\ UNCHANGED <<messages_for_api, requests, tools_payload>>

\* The first request or its retry returns (chat_page.py 683-725).
RequestSucceeds(resp, plugin_result) ==
    /\ pc \in {"RequestSent", "RequestSentNoTools"}
    /\ response' = resp
    /\ tools_disabled' = (tools_disabled \/ pc = "RequestSentNoTools")
    /\ AfterResponse(
           resp,
           ToolCallsToRun(tools_disabled', resp),
           FirstRaising(ToolCallsToRun(tools_disabled', resp), 1, DispatchRegistry,
                        plugin_result),
           RunToolCalls(
               add_message(conversation_history, "assistant", resp.content,
                           [hidden |-> TRUE],
                           [tool_calls |-> ToolCallsToRun(tools_disabled', resp)]),
               Returning(ToolCallsToRun(tools_disabled', resp), DispatchRegistry,
                         plugin_result),
               1, DispatchRegistry, plugin_result))
    /\ UNCHANGED <<session_vars, manifests, prompt, paths, exceptions, schemas_built, turns,
                   reload_vars>>
    /\ UNCHANGED lib_vars

\* The follow-up request returns: its content is the answer (chat_page.py 709-725).
FollowupSucceeds(resp) ==
    /\ pc \in {"FollowupSent", "FollowupSentNoTools"}
    /\ response' = resp
    /\ FinalAnswer(resp.content)
    /\ UNCHANGED <<session_vars, manifests, prompt, paths, tools_payload, tools_disabled,
                   messages_for_api, requests, exceptions, plugin_runs, schemas_built, turns,
                   reload_vars>>
    /\ UNCHANGED lib_vars

(***************************************************************************)
(* Plugin management page (pages/14_Plugins.py)                            *)
(***************************************************************************)
\* manifest.get("id"): each plugin.json declares the name of its directory.
ManifestId(dir) == dir

\* list_manifests: the manifests that parse, in directory order.
list_manifests(files) ==
    LET readable == SelectSeq(PluginDirs, LAMBDA dir : files[dir].readable)
    IN  [i \in DOMAIN readable |->
            [id |-> ManifestId(readable[i]),
             enabled |-> files[readable[i]].enabled,
             entrypoint |-> files[readable[i]].entrypoint]]

\* As set_plugin_enabled, but the flag goes into every manifest that parses.
set_plugin_enabled_EveryManifest(files, plugin_id, enabled) ==
    [files |-> [dir \in DOMAIN files |->
                   IF files[dir].readable THEN [files[dir] EXCEPT !.enabled = enabled]
                   ELSE files[dir]],
     result |-> TRUE]

\* set_plugin_enabled: the first manifest that parses and has this id is
\* rewritten with the flag and the call returns True; a manifest that does
\* not parse is passed over; False when the loop ends.
set_plugin_enabled(files, plugin_id, enabled) ==
    LET matching == SelectSeq(PluginDirs,
                        LAMBDA dir : files[dir].readable /\ ManifestId(dir) = plugin_id)
    IN  IF matching # <<>>
        THEN [files |-> [files EXCEPT ![Head(matching)].enabled = enabled], result |-> TRUE]
        ELSE [files |-> files, result |-> FALSE]

\* The Save button: only the manifest on disk changes.
SavePluginEnabled(plugin_id, enabled) ==
    /\ reload_pc = "idle"
    /\ manifests[plugin_id].enabled # enabled
    /\ manifests' = set_plugin_enabled(manifests, plugin_id, enabled).files
    /\ UNCHANGED <<session_vars, heap, conversation_history, pc, turn_locals, turn_io, turns,
                   reload_vars>>
    /\ UNCHANGED lib_vars

\* A reference no variable holds.
FreshRef == CHOOSE r \in RegRefs : r \notin {plugin_registry, local_registry, new_registry}

\* As ReloadTarget, but the load pass refills the registry of shared state.
ReloadTarget_InPlace == plugin_registry

\* 14_Plugins.py 67: the object the load pass fills is a new PluginRegistry().
ReloadTarget == FreshRef

\* The Reload button is pressed: new_registry = PluginRegistry()
ReloadStart ==
    /\ reload_pc = "idle"
    /\ reloads < MaxReloads
    /\ reloads' = reloads + 1
    /\ new_registry' = ReloadTarget
    /\ heap' = [heap EXCEPT ![new_registry'] = EmptyRegistry]
    /\ reload_i' = 1
    /\ reload_pc' = "loading"
    /\ UNCHANGED <<session_vars, conversation_history, manifests, pc, turn_locals, turn_io,
                   turns>>
    /\ UNCHANGED lib_vars

\* load_plugins handles the next manifest (loader.py 63-83).
ReloadLoad ==
    /\ reload_pc = "loading"
    /\ reload_i <= Len(PluginDirs)
    /\ heap' = [heap EXCEPT ![new_registry] =
                   load_one(heap[new_registry], manifests[PluginDirs[reload_i]],
                            PluginDirs[reload_i])]
    /\ reload_i' = reload_i + 1
    /\ UNCHANGED <<session_vars, conversation_history, manifests, pc, turn_locals, turn_io,
                   turns, reload_pc, new_registry, reloads>>
    /\ UNCHANGED lib_vars

\* 14_Plugins.py 69: st.session_state["plugin_registry"] = new_registry
ReloadSwap ==
    /\ reload_pc = "loading"
    /\ reload_i > Len(PluginDirs)
    /\ plugin_registry' = new_registry
    /\ new_registry' = NoRef
    /\ heap' = Collected(heap, {new_registry, local_registry})
    /\ reload_pc' = "idle"
    /\ UNCHANGED admin_vars
    /\ UNCHANGED <<enable_tools, use_streaming, selected_model, tools_unsupported_models,
                   conversation_history, manifests, pc, turn_locals, turn_io, turns,
                   reload_i, reloads>>
    /\ UNCHANGED lib_vars

(***************************************************************************)
(* Direct calls of the library functions                                   *)
(***************************************************************************)
app_vars ==
    <<session_vars, conversation_history, manifests, pc, turn_locals, turn_io, turns,
      reload_vars>>

\* registry.enable(plugin_id) on the registry of shared state
RegistryEnable(plugin_id) ==
    /\ heap' = [heap EXCEPT ![plugin_registry] = registry_enable(@, plugin_id)]
    /\ UNCHANGED <<app_vars, lib_vars>>

\* registry.disable(plugin_id) on the registry of shared state
RegistryDisable(plugin_id) ==
    /\ heap' = [heap EXCEPT ![plugin_registry] = registry_disable(@, plugin_id)]
    /\ UNCHANGED <<app_vars, lib_vars>>

\* registry.register(plugin, enabled, description) on the registry of shared
\* state
CallRegister(plugin, enabled, description) ==
    /\ called' = [op |-> "register", plugin |-> plugin, enabled |-> enabled,
                  description |-> description, _plugins |-> heap[plugin_registry]]
    /\ heap' = [heap EXCEPT ![plugin_registry] = register(@, plugin, enabled, description)]
    /\ returned' = [op |-> "register", _plugins |-> heap'[plugin_registry]]
    /\ UNCHANGED app_vars

\* The user types a whole message.
TypeText(text) ==
    /\ pc = "Idle"
    /\ prompt = <<>>
    /\ prompt' = text
    /\ UNCHANGED <<session_vars, heap, conversation_history, manifests, pc, paths,
                   local_registry, tools_payload, tools_disabled, messages_for_api, response,
                   turn_io, turns, reload_vars>>
    /\ UNCHANGED lib_vars

\* chat_page.py 341-343: _extract_rate_from_text(prompt), for a prompt that
\* is not a rate command
CallExtractRate ==
    /\ prompt # <<>>
    /\ ~is_rate_query_of(prompt)
    /\ called' = [op |-> "_extract_rate_from_text", text |-> prompt]
    /\ returned' = [op |-> "_extract_rate_from_text",
                    value |-> _extract_rate_from_text(prompt)]
    /\ UNCHANGED <<app_vars, heap>>

\* chat_page.py 347-348: _parse_rate_command(prompt), for a rate command
CallParseRateCommand ==
    /\ is_rate_query_of(prompt)
    /\ called' = [op |-> "_parse_rate_command", text |-> prompt]
    /\ returned' = [op |-> "_parse_rate_command", value |-> _parse_rate_command(prompt)]
    /\ UNCHANGED <<app_vars, heap>>

\* get_tools(registry) on the registry of shared state
CallGetTools ==
    /\ called' = [op |-> "get_tools", _plugins |-> heap[plugin_registry]]
    /\ returned' = [op |-> "get_tools", tools |-> get_tools(heap[plugin_registry])]
    /\ UNCHANGED <<app_vars, heap>>

\* set_plugin_enabled(plugins_dir, plugin_id, enabled)
CallSetPluginEnabled(plugin_id, enabled) ==
    LET out == set_plugin_enabled(manifests, plugin_id, enabled)
    IN  /\ called' = [op |-> "set_plugin_enabled", plugin_id |-> plugin_id,
                      enabled |-> enabled]
        /\ returned' = [op |-> "set_plugin_enabled", result |-> out.result]
        /\ manifests' = out.files
        /\ UNCHANGED <<session_vars, heap, conversation_history, pc, turn_locals, turn_io,
                       turns, reload_vars>>

\* registry = PluginRegistry(); load_plugins(plugins_dir, registry, db_path)
CallLoadPlugins ==
    /\ called' = [op |-> "load_plugins", files |-> manifests]
    /\ returned' = [op |-> "load_plugins",
                    _plugins |-> load_plugins(EmptyRegistry, manifests)]
    /\ UNCHANGED <<app_vars, heap>>

\* The tool names run_tool is called with: the two built-in tools, the three
\* plugin tools and a name it does not know.
ToolNames ==
    {"get_current_time", "calculate", "lookup"} \cup {PluginTools[i] : i \in DOMAIN PluginTools}

\* The arguments that go with a tool name: an expression, or none, for
\* calculate; for the other tools the model keeps none of the keys.
ArgumentsFor(name, expressions) ==
    IF name = "calculate" THEN {Arguments(e) : e \in expressions \cup {None}}
    ELSE {Arguments(None)}

\* What the plugin behind a tool name can do when it is run.
OutcomesFor(name) ==
    IF ToolPlugin(name) # None THEN PluginResults \cup {PluginRaises} ELSE {<<"status: ok">>}

\* run_tool(name, arguments, plugin_registry) on the registry of shared state
CallRunTool(name, arguments, plugin_result) ==
    /\ called' = [op |-> "run_tool", name |-> name, arguments |-> arguments,
                  _plugins |-> heap[plugin_registry], plugin_result |-> plugin_result]
    /\ returned' = [op |-> "run_tool"]
                   @@ run_tool(name, arguments, heap[plugin_registry], plugin_result)
    /\ UNCHANGED <<app_vars, heap>>

\* The `arguments` text that goes with a tool name in a tool call.
RawArgumentsFor(name, expressions) ==
    {JsonObject(a.expression) : a \in ArgumentsFor(name, expressions)}
    \cup {JsonArray, NotJson}

\* A tool call as the provider sends it.
ToolCallOf(name, raw_args) ==
    [id |-> <<"call", 1>>, function |-> [name |-> name, arguments |-> raw_args]]

\* tool_call_to_message(tool_call, plugin_registry) on the registry of shared
\* state
CallToolCallToMessage(tool_call, plugin_result) ==
    /\ called' = [op |-> "tool_call_to_message", tool_call |-> tool_call,
                  _plugins |-> heap[plugin_registry], plugin_result |-> plugin_result]
    /\ returned' = [op |-> "tool_call_to_message"]
                   @@ tool_call_to_message(tool_call, heap[plugin_registry], plugin_result)
    /\ UNCHANGED <<app_vars, heap>>

\* The add_message calls made directly: the entries chat_page appends (user
\* with attachments, hidden assistant with tool_calls, hidden tool with
\* tool_call_id and name, assistant answer), a user entry with a large image
\* and a system entry.
AddedMessages ==
    {[role |-> "user", content |-> <<"abc">>, metadata |-> [attachments |-> <<>>],
      api_fields |-> NoDict],
     [role |-> "user", content |-> LargeImage, metadata |-> NoDict, api_fields |-> NoDict],
     [role |-> "assistant", content |-> <<>>, metadata |-> [hidden |-> TRUE],
      api_fields |-> [tool_calls |-> <<ToolCall(1)>>]],
     [role |-> "tool", content |-> <<"status: ok">>, metadata |-> [hidden |-> TRUE],
      api_fields |-> [tool_call_id |-> <<"call", 1>>, name |-> "get_weather"]],
     [role |-> "assistant", content |-> <<"answer">>, metadata |-> NoDict,
      api_fields |-> NoDict],
     [role |-> "system", content |-> <<"abc">>, metadata |-> NoDict, api_fields |-> NoDict]}

\* Longest history add_message is called on directly.
MaxHistory == 3

\* chat_manager.add_message(role, content, metadata, api_fields)
AddMessage(message) ==
    /\ Len(conversation_history) < MaxHistory
    /\ conversation_history' =
           add_message(conversation_history, message.role, message.content,
                       message.metadata, message.api_fields)
    /\ called' = [op |-> "add_message"]
    /\ returned' = [op |-> "add_message"]
    /\ UNCHANGED <<session_vars, heap, manifests, pc, turn_locals, turn_io, turns, reload_vars>>

\* chat_manager.clear_conversation()
ClearConversation ==
    /\ conversation_history' = clear_conversation(conversation_history)
    /\ called' = [op |-> "clear_conversation"]
    /\ returned' = [op |-> "clear_conversation"]
    /\ UNCHANGED <<session_vars, heap, manifests, pc, turn_locals, turn_io, turns, reload_vars>>

\* chat_manager.load_from_data(data)
LoadFromData(data) ==
    /\ conversation_history' = load_from_data(conversation_history, data)
    /\ called' = [op |-> "load_from_data", data |-> data]
    /\ returned' = [op |-> "load_from_data"]
    /\ UNCHANGED <<session_vars, heap, manifests, pc, turn_locals, turn_io, turns, reload_vars>>

\* chat_manager.save_to_file(path, compact), then load_from_file(path); when
\* to_dict raises nothing is written and nothing loaded.
SaveThenLoad(compact) ==
    LET saved == to_dict(conversation_history, compact)
    IN  /\ conversation_history' =
               IF saved.raised THEN conversation_history
               ELSE load_from_data(conversation_history,
                                   json_load(safe_json_dumps(saved.data)))
        /\ called' = [op |-> "save_to_file", compact |-> compact,
                      history |-> conversation_history]
        /\ returned' = [op |-> "load_from_file", raised |-> saved.raised]
        /\ UNCHANGED <<session_vars, heap, manifests, pc, turn_locals, turn_io, turns,
                       reload_vars>>

\* chat_manager.get_formatted_messages(): entry.get raises on an element
\* that is not a dict.
CallGetFormattedMessages ==
    /\ called' = [op |-> "get_formatted_messages"]
    /\ returned' =
           IF \E i \in DOMAIN conversation_history : ~IsDict(conversation_history[i])
           THEN [op |-> "get_formatted_messages", raised |-> TRUE, messages |-> <<>>]
           ELSE [op |-> "get_formatted_messages", raised |-> FALSE,
                 messages |-> get_formatted_messages(conversation_history)]
    /\ UNCHANGED <<app_vars, heap>>

(***************************************************************************)
(* Admin login (admin_auth.py)                                             *)
(***************************************************************************)
\* config.admin_password
AdminPassword == "admin-password"

max_attempts == 5

lock_seconds == 300

\* The admin keys of st.session_state.
AdminSession(authenticated, failed_attempts, lock_until) ==
    [admin_authenticated |-> authenticated, admin_failed_attempts |-> failed_attempts,
     admin_lock_until |-> lock_until]

\* As Locked, but a lock is never in force.
Locked_Never(lock_until, t) == FALSE

\* admin_auth.py 22: the lock is in force.
Locked(lock_until, t) == lock_until # 0 /\ t < lock_until

\* admin_auth.py 17-21: a lock whose time has passed is cleared together with
\* the failure counter.
ExpireLock(session, t) ==
    IF session.admin_lock_until # 0 /\ t >= session.admin_lock_until
    THEN AdminSession(session.admin_authenticated, 0, 0)
    ELSE session

\* admin_auth.py 33-46: the Login button was clicked with `password` typed.
Login(admin_password, session, t, password) ==
    IF password = admin_password
    THEN [result |-> TRUE, session |-> AdminSession(TRUE, 0, 0)]
    ELSE LET attempts == session.admin_failed_attempts + 1
         IN  [result |-> FALSE,
              session |-> AdminSession(session.admin_authenticated, attempts,
                                       IF attempts >= max_attempts THEN t + lock_seconds
                                       ELSE session.admin_lock_until)]

\* require_admin_access(config, page_key) at time t, with `password` in the
\* text input and the Login button clicked or not: what it returns and the
\* session state it leaves.
require_admin_access(admin_password, session, t, password, clicked) ==
    IF admin_password = "" THEN [result |-> FALSE, session |-> session]
    ELSE IF session.admin_authenticated THEN [result |-> TRUE, session |-> session]
    ELSE LET expired == ExpireLock(session, t)
         IN  IF Locked(expired.admin_lock_until, t)
             THEN [result |-> FALSE, session |-> expired]
             ELSE IF clicked THEN Login(admin_password, expired, t, password)
             ELSE [result |-> FALSE, session |-> expired]

\* Latest time of a behaviour.
MaxNow == 1200

\* Time passes between two script runs.
Tick(seconds) ==
    /\ now + seconds <= MaxNow
    /\ now' = now + seconds
    /\ UNCHANGED <<admin_authenticated, admin_failed_attempts, admin_lock_until>>
    /\ UNCHANGED <<enable_tools, use_streaming, selected_model, tools_unsupported_models,
                   plugin_registry, heap, conversation_history, manifests, pc, turn_locals,
                   turn_io, turns, reload_vars, lib_vars>>

\* A run of an admin page calls require_admin_access.
RequireAdminAccess(password, clicked) ==
    LET before == AdminSession(admin_authenticated, admin_failed_attempts, admin_lock_until)
        out == require_admin_access(AdminPassword, before, now, password, clicked)
    IN  /\ admin_authenticated' = out.session.admin_authenticated
        /\ admin_failed_attempts' = out.session.admin_failed_attempts
        /\ admin_lock_until' = out.session.admin_lock_until
        /\ called' = [op |-> "require_admin_access", password |-> password,
                      clicked |-> clicked, session_state |-> before, now |-> now]
        /\ returned' = [op |-> "require_admin_access", result |-> out.result]
        /\ UNCHANGED <<enable_tools, use_streaming, selected_model, tools_unsupported_models,
                       plugin_registry, heap, conversation_history, manifests, pc,
                       turn_locals, turn_io, turns, reload_vars, now>>

(***************************************************************************)
(* Specifications                                                          *)
(***************************************************************************)
Responses == {Response(<<"answer">>, calls) : calls \in ToolCallLists}

\* The steps of a plain-chat turn after its first request.
TurnSteps ==
    \/ \E chunks \in StreamOutcomes : StreamEnds(chunks)
    \/ \E message \in ProviderErrors : RequestFails(message)
    \/ \E message \in ProviderErrors : RetryFails(message)
    \/ \E resp \in Responses, plugin_result \in PluginResults :
           RequestSucceeds(resp, plugin_result)
    \/ \E resp \in Responses : FollowupSucceeds(resp)

\* A prompt the router leaves to the Orchestrator.
PlainPrompts == {<<"abc">>}

\* The session: settings changes and plain-chat turns.
Next ==
    \/ SetEnableTools
    \/ SetUseStreaming
    \/ SelectModel
    \/ \E p \in PlainPrompts : Submit(p, <<"status: ok">>, TRUE)
    \/ TurnSteps

Spec == Init /\ [][Next]_vars

\* One or more prompts per branch of the router, among them rate commands
\* with and without a parsable amount.
SamplePrompts ==
    {<<"abc">>,
     <<"/rate", "USD", "eur", "abc">>,
     <<"/rate", "USD/eur", "abc">>,
     <<"/rate", "USD/eur", "10">>,
     <<"convert", "10", "USD", "to", "eur">>,
     <<"/weather", "abc">>,
     <<"/wiki", "abc">>,
     <<"who is", "abc">>}

\* Turns of every branch of the router, under settings fixed at the start.
ShortNext ==
    \/ \E p \in SamplePrompts, plugin_result \in PluginResults, comment_ok \in BOOLEAN :
           Submit(p, plugin_result, comment_ok)
    \/ TurnSteps

ShortInit == Init /\ selected_model = "model_a"

SpecShort == ShortInit /\ [][ShortNext]_vars

\* The responses of the reload specification: no tool call, or as many as the
\* bound allows, the first of them to the weather tool.
ReloadResponses ==
    {Response(<<"answer">>, calls) : calls \in {<<>>, [i \in 1..MaxToolCalls |-> ToolCall(i)]}}

\* The plugins whose manifest the Save button changes there: the first and the
\* last of the load pass.
SavedPlugins == {"weather_plugin", "wikimedia_plugin"}

\* Reload and Save of the plugin page interleaved with plain-chat turns.
ReloadNext ==
    \/ \E p \in PlainPrompts : Submit(p, <<"status: ok">>, TRUE)
    \/ \E resp \in ReloadResponses : RequestSucceeds(resp, <<"status: ok">>)
    \/ FollowupSucceeds(Response(<<"answer">>, <<>>))
    \/ \E dir \in SavedPlugins, enabled \in BOOLEAN : SavePluginEnabled(dir, enabled)
    \/ ReloadStart
    \/ ReloadLoad
    \/ ReloadSwap

ReloadInit == Init /\ enable_tools /\ ~use_streaming /\ selected_model = "model_a"

SpecReload == ReloadInit /\ [][ReloadNext]_vars

\* The user types one more word into the chat input.
TypeToken ==
    /\ pc = "Idle"
    /\ paths = {}
    /\ Len(prompt) < MaxLen
    /\ \E tok \in (IF prompt = <<>> THEN FirstTokens ELSE Words) : prompt' = Append(prompt, tok)
    /\ UNCHANGED <<session_vars, heap, conversation_history, manifests, pc, paths,
                   local_registry, tools_payload, tools_disabled, messages_for_api, response,
                   turn_io, turns, reload_vars>>
    /\ UNCHANGED lib_vars

\* The typed prompt is submitted.
SubmitTyped ==
    /\ prompt # <<>>
    /\ paths = {}
    /\ Submit(prompt, <<"status: ok">>, TRUE)

RouterNext == TypeToken \/ SubmitTyped

RouterInit == Init /\ enable_tools /\ ~use_streaming /\ selected_model = "model_a"

SpecRouter == RouterInit /\ [][RouterNext]_vars

\* The currency names of the typed messages: codes, names in the plural and a
\* name of two words.
CurrencyNames == {"USD", "eur", "dollars", "euro", "canadian dollars"}

\* Messages about rates: an optional lead, an optional amount, up to two
\* currency names with an optional separator between them, and an optional
\* amount at the end; and rate commands of every shape.
RateTexts ==
    LET Optional(S) == {<<>>} \cup {<<tok>> : tok \in S}
    IN  {lead \o amount \o first \o sep \o second \o last :
            lead \in Optional({"convert", "how much is", "abc"}),
            amount \in Optional(NumTokens),
            first \in Optional(CurrencyNames),
            sep \in Optional({"to", "in"}),
            second \in Optional(CurrencyNames),
            last \in Optional(NumTokens)}
        \cup {<<"/rate">> \o rest :
                rest \in {<<>>, <<"USD">>, <<"USD", "eur">>, <<"USD", "eur", "10">>,
                          <<"USD", "eur", "abc">>, <<"USD/eur">>, <<"USD/eur", "10">>,
                          <<"USD/eur", "abc">>, <<"eur", "canadian dollars", "10">>}}

\* Messages are typed and the two slot extractors applied to them.
RateNext ==
    \/ \E text \in RateTexts \ {<<>>} : TypeText(text)
    \/ CallExtractRate
    \/ CallParseRateCommand

SpecRate == RouterInit /\ [][RateNext]_vars

\* The manifests a registry is first loaded from: each plugin enabled or not.
ManifestChoices ==
    [{PluginDirs[i] : i \in DOMAIN PluginDirs} -> {Manifest(TRUE, "ok"), Manifest(FALSE, "ok")}]

ToolsInit ==
    /\ \E files \in ManifestChoices : InitState(files)
    /\ enable_tools /\ ~use_streaming /\ selected_model = "model_a"

\* The expressions of the calculate calls made next to the plugin calls: one
\* that evaluates to an int, one whose evaluation raises, one that evaluates
\* to an imaginary number.
SampleExpressions == {"1+2", "1/0", "2000000j"}

\* Registry changes and direct calls of the Tool Schema Builder and Dispatcher.
ToolsNext ==
    \/ \E dir \in DOMAIN manifests : RegistryEnable(dir)
    \/ \E dir \in DOMAIN manifests : RegistryDisable(dir)
    \/ CallGetTools
    \/ \E name \in ToolNames :
           \E arguments \in ArgumentsFor(name, SampleExpressions),
              plugin_result \in OutcomesFor(name) :
               CallRunTool(name, arguments, plugin_result)
    \/ \E name \in ToolNames :
           \E raw_args \in RawArgumentsFor(name, SampleExpressions),
              plugin_result \in OutcomesFor(name) :
               CallToolCallToMessage(ToolCallOf(name, raw_args), plugin_result)

SpecTools == ToolsInit /\ [][ToolsNext]_vars

\* Calls of the arithmetic tool, directly and as a tool call.
CalcNext ==
    \/ \E arguments \in ArgumentsFor("calculate", Expressions) :
           CallRunTool("calculate", arguments, <<"status: ok">>)
    \/ \E raw_args \in RawArgumentsFor("calculate", Expressions) :
           CallToolCallToMessage(ToolCallOf("calculate", raw_args), <<"status: ok">>)

SpecCalc == ToolsInit /\ [][CalcNext]_vars

\* The plugin objects register is called with: the weather plugin as loaded,
\* another class with the same id and no name or version, two classes named
\* Plugin without an id, and a class whose id is the class name of the others.
RegisteredPlugins ==
    {PluginOf("weather_plugin"),
     Plugin("weather_plugin", "OtherWeather", None, None),
     Plugin("", "Plugin", None, "2.0"),
     Plugin("", "Plugin", "Nameless", None),
     Plugin("Plugin", "Shadow", "Shadow", "3.0")}

\* Direct calls of the Registry.
RegistryNext ==
    \/ \E plugin \in RegisteredPlugins, enabled \in BOOLEAN,
          description \in {"", "second description"} :
           CallRegister(plugin, enabled, description)
    \/ \E plugin_id \in {"weather_plugin", "Plugin"} : RegistryEnable(plugin_id)
    \/ \E plugin_id \in {"weather_plugin", "Plugin"} : RegistryDisable(plugin_id)

SpecRegistry == ToolsInit /\ [][RegistryNext]_vars

\* Prompts of the three short-circuit branches, each with input the branch
\* accepts.
ShortCircuitPrompts ==
    {<<"/rate", "USD/eur", "10">>, <<"/weather", "abc">>, <<"/wiki", "abc">>}

\* Registry entries enabled and disabled, absent from the start for a plugin
\* whose manifest is off, with the short-circuit branches and the Dispatcher
\* run on them.
EnabledNext ==
    \/ \E dir \in DOMAIN manifests : RegistryEnable(dir)
    \/ \E dir \in DOMAIN manifests : RegistryDisable(dir)
    \/ \E p \in ShortCircuitPrompts, plugin_result \in PluginResults :
           Submit(p, plugin_result, TRUE)
    \/ \E i \in DOMAIN PluginTools, plugin_result \in PluginResults :
           CallRunTool(PluginTools[i], Arguments(None), plugin_result)

SpecEnabled == ToolsInit /\ [][EnabledNext]_vars

\* The passwords typed into the login form: the configured one, another, none.
TypedPasswords == {AdminPassword, "wrong-password", ""}

\* The seconds between two runs of an admin page: a second short of half the
\* lock time, and half of it.
Ticks == {149, 150}

\* Runs of the admin pages as time passes.
AdminNext ==
    \/ \E seconds \in Ticks : Tick(seconds)
    \/ \E password \in TypedPasswords, clicked \in BOOLEAN :
           RequireAdminAccess(password, clicked)

SpecAdmin == RouterInit /\ [][AdminNext]_vars

\* Every request of the client returns or raises: requests are sent with a
\* timeout (openrouter_client.py 107, 146) and a bounded number of attempts,
\* so a turn that waits for the provider takes its next step.
SpecShortFair == SpecShort /\ WF_vars(TurnSteps)

\* The plugin.json of a directory: enabled or not with an entrypoint that
\* loads, enabled with an entrypoint that fails, or not JSON at all.
ManifestKinds ==
    {Manifest(TRUE, "ok"), Manifest(FALSE, "ok"), MalformedManifest}
    \cup {Manifest(TRUE, entrypoint) : entrypoint \in Entrypoints}

\* The ids set_plugin_enabled is called with: those of the plugin directories
\* and one that no manifest declares.
PluginIds == {PluginDirs[i] : i \in DOMAIN PluginDirs} \cup {"no_such_plugin"}

LoaderInit ==
    /\ \E files \in [{PluginDirs[i] : i \in DOMAIN PluginDirs} -> ManifestKinds] :
           InitState(files)
    /\ enable_tools /\ ~use_streaming /\ selected_model = "model_a"

\* Direct calls of the Loader.
LoaderNext ==
    \/ \E plugin_id \in PluginIds, enabled \in BOOLEAN :
           CallSetPluginEnabled(plugin_id, enabled)
    \/ CallLoadPlugins

SpecLoader == LoaderInit /\ [][LoaderNext]_vars

\* The message lists load_from_data is given: empty, without a system entry,
\* with the system entry not first, with two system entries, with a system
\* entry first, with an element that is not a dict or has no role.
LoadedLists ==
    LET user == [role |-> "user", content |-> <<"abc">>]
        answer == [role |-> "assistant", content |-> <<"answer">>]
        system == [role |-> "system", content |-> <<"stored_prompt">>]
        tool == [role |-> "tool", content |-> <<"status: ok">>, metadata |-> [hidden |-> TRUE],
                 api_fields |-> [tool_call_id |-> <<"call", 1>>, name |-> "get_weather"]]
        no_role == [content |-> <<"abc">>]
    IN  {<<>>, <<user>>, <<user, answer>>, <<user, system>>,
         <<user, system, answer, _system_message>>, <<system, user, tool>>,
         <<system, _system_message>>, <<NotADict, user>>, <<NotADict, system>>,
         <<no_role, system, tool>>}

ChatInit == Init /\ enable_tools /\ ~use_streaming /\ selected_model = "model_a"

\* Direct calls of the ChatManager.
ChatNext ==
    \/ \E message \in AddedMessages : AddMessage(message)
    \/ ClearConversation
    \/ \E data \in {Data(messages) : messages \in LoadedLists} \cup {NoMessageList} :
           LoadFromData(data)
    \/ \E compact \in BOOLEAN : SaveThenLoad(compact)
    \/ CallGetFormattedMessages

SpecChat == ChatInit /\ [][ChatNext]_vars

(***************************************************************************)
(* Properties                                                              *)
(***************************************************************************)
Range(s) == {s[i] : i \in DOMAIN s}

Last(s) == s[Len(s)]

\* The step is one in which the client raised.
ClientRaises == pc # "Idle" /\ Len(exceptions') = Len(exceptions) + 1

\* The step is one in which a request returned a response.
ClientReturns == pc # "Idle" /\ pc # "Streaming" /\ pc' # pc /\ exceptions' = exceptions

\* The text of the exception raised in the step mentions the tools parameters.
RaisedMentionsTools ==
    Mentions(Last(exceptions'), "tool_choice") \/ Mentions(Last(exceptions'), "tools")

IsHidden(entry) == "metadata" \in DOMAIN entry /\ "hidden" \in DOMAIN entry.metadata

\* The entry is a visible assistant answer with this text.
IsAnswer(entry, text) == entry.role = "assistant" /\ entry.content = text /\ ~IsHidden(entry)

\* C1: a request that carried tools fails with a text mentioning "tools" or
\* "tool_choice": the selected model is put on the unsupported list and the
\* same messages are sent again at once, without tools, and only once; when
\* the retry returns, its content is appended as the answer of the turn and
\* nothing else is appended or run, whatever tool calls it carries.
C1_ToolsRejectionRetry ==
    /\ [][(ClientRaises /\ Last(requests).tools # NoTools /\ RaisedMentionsTools)
            => /\ selected_model \in Range(tools_unsupported_models')
               /\ requests' = Append(requests, [Last(requests) EXCEPT !.tools = NoTools])
               /\ pc' = "RequestSentNoTools"
               /\ conversation_history' = conversation_history]_vars
    /\ [][(pc = "RequestSentNoTools" /\ pc' # pc)
            => /\ pc' = "Idle"
               /\ requests' = requests
               /\ plugin_runs' = plugin_runs
               /\ (ClientReturns =>
                      /\ Len(conversation_history') = Len(conversation_history) + 1
                      /\ IsAnswer(Last(conversation_history'), response'.content)
                      /\ Last(rendered') = Render("answer", response'.content))]_vars
    /\ [](pc = "RequestSentNoTools" => Len(requests) = 2 /\ Len(exceptions) = 1)

\* A turn whose tools request was rejected and whose retry answered with tool calls.
C1_Witness ==
    /\ pc = "Idle"
    /\ Len(requests) = 2
    /\ requests[1].tools # NoTools
    /\ requests[2].tools = NoTools
    /\ Len(exceptions) = 1
    /\ Len(response.tool_calls) = MaxToolCalls
    /\ rendered = <<Render("answer", response.content)>>

\* C2: the first request of a turn carries tools only when tools are enabled
\* and the selected model is not on the unsupported list; no other request
\* carries tools; a model once on the list stays on it, so no later turn with
\* that model selected attaches tools.
C2_ToolsOnlyWhenAllowed ==
    /\ [][(turns' = turns + 1 /\ requests' # <<>> /\ requests'[1].tools # NoTools)
            => (enable_tools /\ selected_model \notin Range(tools_unsupported_models))]_vars
    /\ [][(turns' = turns + 1 /\ selected_model \in Range(tools_unsupported_models))
            => \A i \in DOMAIN requests' : requests'[i].tools = NoTools]_vars
    /\ [][Range(tools_unsupported_models) \subseteq Range(tools_unsupported_models')]_vars
    /\ [](\A i \in DOMAIN requests : i > 1 => requests[i].tools = NoTools)
    /\ [][pc # "Idle" => selected_model' = selected_model]_vars

\* A later turn with a listed model selected and tools enabled: its request has no tools.
C2_Witness ==
    /\ turns = 2
    /\ pc = "RequestSent"
    /\ enable_tools
    /\ selected_model \in Range(tools_unsupported_models)
    /\ requests = <<Request(NoTools, FALSE, messages_for_api)>>

\* C3: a request fails with a provider error that is not a tools rejection (the
\* text mentions neither "tools" nor "tool_choice", or the failed request
\* carried no tools): nothing is sent again, the unsupported list is left as
\* it is, the turn ends with the error rendered, and no assistant answer is
\* appended to the conversation.
C3_OtherErrorsPropagate ==
    [][(ClientRaises /\ ~(Last(requests).tools # NoTools /\ RaisedMentionsTools))
         => /\ requests' = requests
            /\ tools_unsupported_models' = tools_unsupported_models
            /\ pc' = "Idle"
            /\ Len(rendered') = Len(rendered) + 1
            /\ SubSeq(rendered', 1, Len(rendered)) = rendered
            /\ Last(rendered').kind = "error"
            /\ conversation_history' = conversation_history]_vars

\* The entries the plain-chat turn has appended after its user entry.
TurnEntries ==
    LET users == {i \in DOMAIN conversation_history : conversation_history[i].role = "user"}
        last_user == CHOOSE i \in users : \A j \in users : j <= i
    IN  IF users = {} THEN <<>>
        ELSE SubText(conversation_history, last_user + 1, Len(conversation_history))

\* C4: a tools request returns n >= 1 tool calls: the conversation gains a
\* hidden assistant entry carrying the tool_calls, then n hidden tool entries,
\* one per call in order, each with the id and the name of its call; the
\* follow-up request is sent in the same step, after them, without tools and
\* with every entry of the updated conversation; the content of its response
\* is appended as the visible answer of the turn.
C4_ToolCallSequence ==
    /\ [][(ClientReturns /\ pc = "RequestSent" /\ Last(requests).tools # NoTools
             /\ response'.tool_calls # <<>>)
            => LET calls == response'.tool_calls
                   n == Len(calls)
                   old == Len(conversation_history)
                   placeholder == conversation_history'[old + 1]
               IN  /\ Len(conversation_history') = old + 1 + n
                   /\ SubText(conversation_history', 1, old) = conversation_history
                   /\ placeholder.role = "assistant"
                   /\ IsHidden(placeholder)
                   /\ placeholder.api_fields.tool_calls = calls
                   /\ \A i \in 1..n :
                          LET entry == conversation_history'[old + 1 + i]
                          IN  /\ entry.role = "tool"
                              /\ IsHidden(entry)
                              /\ entry.api_fields.tool_call_id = calls[i].id
                              /\ entry.api_fields.name = calls[i].function.name
                   /\ Len(requests') = Len(requests) + 1
                   /\ Last(requests').tools = NoTools
                   /\ Len(Last(requests').messages) = old + 1 + n
                   /\ \A k \in 1..(old + 1 + n) :
                          /\ Last(requests').messages[k].role = conversation_history'[k].role
                          /\ Last(requests').messages[k].content
                                 = conversation_history'[k].content
                   /\ \A i \in 1..n :
                          Last(requests').messages[old + 1 + i].tool_call_id = calls[i].id
                   /\ pc' = "FollowupSent"]_vars
    /\ [][(ClientReturns /\ pc = "FollowupSent")
            => /\ conversation_history'
                      = Append(conversation_history,
                               [role |-> "assistant", content |-> response'.content])
               /\ Last(rendered') = Render("answer", response'.content)
               /\ requests' = requests
               /\ pc' = "Idle"]_vars

\* A finished turn with the most tool calls: placeholder, tool entries, answer.
C4_Witness ==
    /\ pc = "Idle"
    /\ Len(requests) = 2
    /\ requests[1].tools # NoTools
    /\ Len(TurnEntries) = MaxToolCalls + 2
    /\ IsHidden(TurnEntries[1])
    /\ TurnEntries[MaxToolCalls + 1].role = "tool"
    /\ IsAnswer(Last(TurnEntries), <<"answer">>)

\* C5: a turn that streams sends no tools, builds no schema and appends no
\* tool entry; a turn that attaches tools to a request never streams.
C5_StreamingExcludesTools ==
    \A i \in DOMAIN requests :
        /\ requests[i].stream =>
               /\ \A j \in DOMAIN requests : requests[j].tools = NoTools
               /\ schemas_built = 0
               /\ plugin_runs = <<>>
               /\ \A k \in DOMAIN TurnEntries : TurnEntries[k].role # "tool"
                                                /\ ~IsHidden(TurnEntries[k])
        /\ requests[i].tools # NoTools =>
               /\ \A j \in DOMAIN requests : ~requests[j].stream
               /\ pc # "Streaming"

\* A streamed turn under enabled tools and a model that accepts them.
C5_Witness ==
    /\ pc = "Idle"
    /\ enable_tools
    /\ use_streaming
    /\ selected_model \notin Range(tools_unsupported_models)
    /\ requests # <<>>
    /\ requests[1].stream
    /\ rendered = <<Render("answer", <<"delta">>)>>

\* The free-text cues of a prompt.
RateCue(p) == _extract_rate_from_text(p) # Nothing

WeatherCue(p) == \E keyword \in WeatherKeywords : TextContains(LowerText(p), keyword)

WikiCue(p) == _is_wiki_auto(LowerText(p))

HasCommand(p, command) == StartsWith(LowerText(p), command)

\* The prompt has none of the three command prefixes.
FreeText(p) == \A command \in CommandTokens : ~HasCommand(p, command)

\* The router claims the prompt for one of its short-circuit branches.
RouterClaims(p) ==
    \/ \E command \in CommandTokens : HasCommand(p, command)
    \/ RateCue(p) \/ WeatherCue(p) \/ WikiCue(p)

\* The plugin a short-circuit path invokes.
PathPlugin(path) ==
    CASE path = "rate" -> "exchangerate_plugin"
      [] path = "weather" -> "weather_plugin"
      [] path = "wiki" -> "wikimedia_plugin"
      [] OTHER -> None

\* C6: the router decides before any request is sent, and a turn it claims
\* (rate, weather or wiki) never enters the Orchestrator: no schema is built,
\* no request carries tools, no tool entry or hidden entry is appended (the
\* turn appends its one visible answer and returns), and the plugin of the
\* chosen path, and no other, is run at most once.
C6_ShortCircuitBypasses ==
    /\ [](requests # <<>> => paths # {})
    /\ []((turns > 0 /\ RouterClaims(prompt))
            => /\ pc = "Idle"
               /\ "plain" \notin paths
               /\ schemas_built = 0
               /\ \A i \in DOMAIN requests : requests[i].tools = NoTools /\ ~requests[i].stream
               /\ Len(plugin_runs) <= 1
               /\ \A i \in DOMAIN plugin_runs : \E path \in paths : plugin_runs[i] = PathPlugin(path))
    /\ [][(turns' = turns + 1 /\ RouterClaims(prompt'))
            => /\ Len(conversation_history') = Len(conversation_history) + 1
               /\ IsAnswer(Last(conversation_history'), Last(rendered').text)]_vars

\* A wiki turn under enabled tools and no streaming: the plugin ran once, the
\* one request of the turn is the comment request.
C6_Witness ==
    /\ turns > 0
    /\ paths = {"wiki"}
    /\ enable_tools
    /\ ~use_streaming
    /\ plugin_runs = <<"wikimedia_plugin">>
    /\ requests = <<Request(NoTools, FALSE, CommentMessages)>>

\* The path whose branch wrote the rendered answer of a short-circuit turn.
RenderedPath ==
    LET label == rendered[1].text[1]
    IN  CASE label \in {"rate response_text", "Rate error:"} -> "rate"
          [] label \in {"weather response_text", "Weather error:"} -> "weather"
          [] label \in {"wiki title and summary", "Wiki error:"} -> "wiki"
          [] OTHER -> "plain"

\* C7: one path runs per message; for a message without a command prefix the
\* path is rate when rate extraction matches, else weather when a weather
\* keyword occurs, else wiki when a wiki cue occurs, else plain chat; a message
\* classified as rate or weather is not handled as wiki unless it starts with
\* the wiki command.
C7_OneIntentWithPrecedence ==
    paths # {} =>
        /\ Cardinality(paths) = 1
        /\ paths \subseteq {"rate", "weather", "wiki", "plain"}
        /\ ("plain" \in paths <=> pc # "Idle")
        /\ (pc = "Idle" => paths = {RenderedPath})
        /\ (FreeText(prompt) =>
               paths = {IF RateCue(prompt) THEN "rate"
                        ELSE IF WeatherCue(prompt) THEN "weather"
                        ELSE IF WikiCue(prompt) THEN "wiki"
                        ELSE "plain"})
        /\ ((HasCommand(prompt, "/rate") \/ RateCue(prompt) \/ HasCommand(prompt, "/weather")
                \/ WeatherCue(prompt))
               /\ ~HasCommand(prompt, "/wiki")
               => "wiki" \notin paths)

\* A free-text message with a cue of each kind, handled as a rate query.
C7_Witness ==
    /\ paths = {"rate"}
    /\ FreeText(prompt)
    /\ RateCue(prompt)
    /\ WeatherCue(prompt)
    /\ WikiCue(prompt)
    /\ rendered # <<>>

\* C8: a message that starts with /rate, /weather or /wiki is handled on the
\* path of that command, whatever else it contains.
C8_CommandPrefixWins ==
    paths # {} =>
        /\ (HasCommand(prompt, "/rate") => paths = {"rate"})
        /\ (HasCommand(prompt, "/weather") => paths = {"weather"})
        /\ (HasCommand(prompt, "/wiki") => paths = {"wiki"})

\* A rate command whose amount text is present and is not a number.
RateCommandBadAmount(p) ==
    /\ HasCommand(p, "/rate")
    /\ Len(p) > 1
    /\ IF HasSlash(p[2]) THEN Len(p) > 2 /\ p[3] \notin NumTokens
       ELSE Len(p) > 3 /\ p[4] \notin NumTokens

\* C9: a rate command with an amount that is not a number is handled on the
\* rate path; the turn ends with the visible answer "Rate error: Invalid
\* amount."; no plugin is run and no request is sent to the model.
C9_BadAmountSurfaces ==
    (turns > 0 /\ RateCommandBadAmount(prompt))
        => /\ paths = {"rate"}
           /\ pc = "Idle"
           /\ plugin_runs = <<>>
           /\ requests = <<>>
           /\ rendered = <<Render("answer", <<"Rate error:", "Invalid amount.">>)>>
           /\ IsAnswer(Last(conversation_history), <<"Rate error:", "Invalid amount.">>)

\* Such a command was submitted while the currency plugin was loaded and enabled.
C9_Witness ==
    /\ turns > 0
    /\ prompt = <<"/rate", "USD/eur", "abc">>
    /\ rendered # <<>>
    /\ _get_plugin(heap[plugin_registry], "exchangerate_plugin") # Nothing

\* C10: a reload fills a new registry object that no reader holds, and the
\* registry of shared state changes only at the swap, to the result of the
\* complete load pass; the registry object a turn read at its start stays the
\* one it uses and keeps its content to the end of the turn, so a plugin tool
\* is dispatched to its plugin exactly when the schema of the turn offered it.
C10_AtomicReload ==
    /\ [][(reloads' = reloads + 1)
            => /\ new_registry' \notin {plugin_registry, local_registry, NoRef}
               /\ heap'[new_registry'] = EmptyRegistry]_vars
    /\ [][(plugin_registry' # plugin_registry
             \/ heap'[plugin_registry'] # heap[plugin_registry])
            => /\ reload_pc = "loading" /\ reload_pc' = "idle"
               /\ reload_i > Len(PluginDirs)
               /\ heap'[plugin_registry'] = load_plugins(EmptyRegistry, manifests)]_vars
    /\ [](heap[plugin_registry]
             \in {load_plugins(EmptyRegistry, files) :
                    files \in [DOMAIN manifests -> {Manifest(TRUE, "ok"), Manifest(FALSE, "ok")}]})
    /\ [](pc # "Idle" => local_registry \notin {NoRef, new_registry})
    /\ [][(pc # "Idle" /\ pc' # "Idle")
            => /\ local_registry' = local_registry
               /\ heap'[local_registry] = heap[local_registry]]_vars
    /\ [][(ClientReturns /\ pc = "RequestSent")
            => \A i \in DOMAIN response'.tool_calls :
                   response'.tool_calls[i].function.name = "get_weather"
                   => ("get_weather" \in Range(requests[1].tools)
                         <=> "weather_plugin" \in Range(plugin_runs'))]_vars

\* A turn dispatched a weather call on the registry it started with, although
\* a reload had meanwhile swapped in a registry without the weather plugin.
C10_Witness ==
    /\ pc = "FollowupSent"
    /\ local_registry # plugin_registry
    /\ "get_weather" \in Range(requests[1].tools)
    /\ "weather_plugin" \in Range(plugin_runs)
    /\ registry_get(heap[plugin_registry], "weather_plugin") = Nothing

\* C11: whatever the registry holds, get_tools returns the two built-in tools
\* first and, for each of the weather, currency and encyclopedia plugins, that
\* plugin's tool exactly when the registry has an entry under its id and the
\* entry is enabled; nothing else is in the schema.
C11_SchemaFollowsRegistry ==
    returned.op = "get_tools" =>
        LET tools == returned.tools
            listed(plugin_id) ==
                \E info \in called._plugins : info.plugin_id = plugin_id /\ info.enabled
        IN  /\ Len(tools) >= 2
            /\ SubSeq(tools, 1, 2) = <<"get_current_time", "calculate">>
            /\ \A name \in Range(PluginTools) :
                   name \in Range(tools) <=> listed(ToolPlugin(name))
            /\ Range(tools) \subseteq {"get_current_time", "calculate"} \cup Range(PluginTools)
            /\ Cardinality(Range(tools)) = Len(tools)

\* get_tools was called on a registry with the weather plugin disabled, the
\* currency plugin absent and the encyclopedia plugin enabled.
C11_Witness ==
    /\ returned.op = "get_tools"
    /\ called._plugins =
           {Registered("weather_plugin", FALSE), Registered("wikimedia_plugin", TRUE)}
    /\ returned.tools = <<"get_current_time", "calculate", "get_wiki_summary">>

\* The registry holds an enabled entry under plugin_id.
Listed(_plugins, plugin_id) ==
    \E info \in _plugins : info.plugin_id = plugin_id /\ info.enabled

\* A step that sends the first request of a plain-chat turn with a tool schema.
ToolsRequestStep ==
    /\ pc = "Idle" /\ pc' = "RequestSent"
    /\ Last(requests').tools # NoTools

\* C12: every request that carries tools carries a schema built for it from the
\* registry of shared state as it is then; a Reload leaves in that registry
\* exactly the plugins whose manifest is enabled, so once set_plugin_enabled
\* and a Reload have happened the next request's schema has the tool of a
\* plugin saved as enabled and lacks the tool of a plugin saved as disabled,
\* which is then absent from the registry.
C12_SchemaFollowsReload ==
    /\ [][ToolsRequestStep
            => /\ schemas_built' = 1
               /\ \A name \in Range(PluginTools) :
                      name \in Range(Last(requests').tools)
                      <=> Listed(heap[plugin_registry], ToolPlugin(name))]_vars
    /\ [][(plugin_registry' # plugin_registry)
            => \A dir \in DOMAIN manifests :
                   /\ manifests[dir].enabled
                      => Listed(heap'[plugin_registry'], dir)
                   /\ ~manifests[dir].enabled
                      => registry_get(heap'[plugin_registry'], dir) = Nothing]_vars
    /\ [][(ToolsRequestStep /\ reloads > 0 /\ reload_pc = "idle"
             /\ heap[plugin_registry] = load_plugins(EmptyRegistry, manifests))
            => \A name \in Range(PluginTools) :
                   name \in Range(Last(requests').tools)
                   <=> manifests[ToolPlugin(name)].enabled]_vars

\* After two reloads the weather plugin is saved as enabled and the
\* encyclopedia plugin as disabled, and the request of the turn carries
\* get_weather and no get_wiki_summary.
C12_Witness ==
    /\ pc = "RequestSent"
    /\ reloads = 2 /\ reload_pc = "idle"
    /\ manifests["weather_plugin"].enabled
    /\ ~manifests["wikimedia_plugin"].enabled
    /\ registry_get(heap[plugin_registry], "wikimedia_plugin") = Nothing
    /\ local_registry = plugin_registry
    /\ Range(Last(requests).tools)
         = {"get_current_time", "calculate", "get_weather", "get_exchange_rate"}

\* C13: set_plugin_enabled(dir, id, v) returns true exactly when a manifest
\* that parses has the id; then that manifest alone gets enabled = v, which a
\* fresh list_manifests shows, and every other manifest is as before; when no
\* manifest has the id no manifest changes; the registry of shared state is
\* untouched either way.
C13_SetEnabledFrame ==
    [][called'.op = "set_plugin_enabled"
        => LET id == called'.plugin_id
               v == called'.enabled
               matches == {dir \in DOMAIN manifests :
                             manifests[dir].readable /\ ManifestId(dir) = id}
           IN  /\ returned'.result = (matches # {})
               /\ matches # {}
                  => /\ \E e \in Range(list_manifests(manifests')) :
                            e.id = id /\ e.enabled = v
                     /\ \A dir \in DOMAIN manifests :
                            manifests'[dir] =
                                IF dir \in matches
                                THEN [manifests[dir] EXCEPT !.enabled = v]
                                ELSE manifests[dir]
               /\ matches = {} => manifests' = manifests
               /\ heap' = heap
               /\ plugin_registry' = plugin_registry]_vars

\* set_plugin_enabled("weather_plugin", False) returned True, the manifest is
\* disabled, the next manifest is not, and the registry loaded before the call
\* still has the plugin enabled.
C13_Witness ==
    /\ called.op = "set_plugin_enabled"
    /\ called.plugin_id = "weather_plugin" /\ ~called.enabled
    /\ returned.result
    /\ ~manifests["weather_plugin"].enabled
    /\ manifests["exchangerate_plugin"].enabled
    /\ Listed(heap[plugin_registry], "weather_plugin")

\* The manifest does not parse, or is enabled with an entrypoint that fails.
FailsToLoad(manifest) ==
    \/ ~manifest.readable
    \/ manifest.enabled /\ manifest.entrypoint \in Entrypoints \ {"ok"}

\* C14: whatever the manifests are, a load pass into an empty registry ends
\* with no entry for a plugin whose manifest is malformed or whose entrypoint
\* fails (no separator, module file missing, class absent, module raising
\* while it loads), and with an enabled entry for every enabled manifest whose
\* entrypoint loads, wherever the failing manifests come in the pass.
C14_LoadFailuresIsolated ==
    returned.op = "load_plugins" =>
        \A dir \in DOMAIN called.files :
            LET manifest == called.files[dir]
            IN  /\ FailsToLoad(manifest)
                   => registry_get(returned._plugins, dir) = Nothing
                /\ (manifest.readable /\ manifest.enabled /\ manifest.entrypoint = "ok")
                   => Listed(returned._plugins, dir)

\* A load pass over a malformed manifest, then one whose module raises, then a
\* valid one registered the last alone.
C14_Witness ==
    /\ returned.op = "load_plugins"
    /\ called.files["weather_plugin"] = MalformedManifest
    /\ called.files["exchangerate_plugin"] = Manifest(TRUE, "module raises")
    /\ called.files["wikimedia_plugin"] = Manifest(TRUE, "ok")
    /\ returned._plugins = {Registered("wikimedia_plugin", TRUE)}

\* The plugin id run_tool looks a tool name up under.
C15_PluginOf(name) ==
    CASE name = "get_weather" -> "weather_plugin"
      [] name = "get_exchange_rate" -> "exchangerate_plugin"
      [] name = "get_wiki_summary" -> "wikimedia_plugin"

\* C15: run_tool for get_weather, get_exchange_rate or get_wiki_summary, with
\* a mapping as arguments: when the registry has no enabled entry under the
\* plugin id the name maps to, it returns a result with status "error", raises
\* nothing and runs no plugin; otherwise it runs that plugin, once, and what
\* the plugin returns is what run_tool returns.
C15_PluginDispatch ==
    (returned.op = "run_tool" /\ called.name \in Range(PluginTools)) =>
        LET plugin_id == C15_PluginOf(called.name)
        IN  IF ~Listed(called._plugins, plugin_id)
            THEN /\ ~returned.raised
                 /\ returned.result[1] = "status: error"
                 /\ returned.ran = None
            ELSE /\ returned.ran = plugin_id
                 /\ called.plugin_result # PluginRaises
                    => /\ ~returned.raised
                       /\ returned.result = called.plugin_result

\* run_tool("get_weather") on a registry whose weather entry is disabled gave
\* the error result and ran nothing.
C15_Witness ==
    /\ returned.op = "run_tool" /\ called.name = "get_weather"
    /\ Registered("weather_plugin", FALSE) \in called._plugins
    /\ ~returned.raised
    /\ returned.result = ErrorResult("Weather plugin is not available.")
    /\ returned.ran = None

\* C16: tool_call_to_message raises for no tool call and returns an entry
\* with role "tool", the id of the call, the name of the tool and a JSON text
\* as content; when the name is unknown to run_tool, the plugin's run raises
\* or the expression cannot be evaluated, the content is a result with status
\* "error".
C16_ToolEntryAlways ==
    returned.op = "tool_call_to_message" =>
        /\ ~returned.raised
        /\ returned.role = "tool"
        /\ returned.tool_call_id = called.tool_call.id
        /\ returned.name = called.tool_call.function.name
        /\ (\/ returned.name \notin ToolNames \ {"lookup"}
            \/ returned.ran # None /\ called.plugin_result = PluginRaises
            \/ returned.name = "calculate"
                 /\ called.tool_call.function.arguments \in {JsonObject("1/0"), NotJson})
           => returned.content[1] = "status: error"

\* The calculate tool was called with this expression.
CalculateCalled(expression) ==
    /\ called.op = "run_tool" /\ returned.op = "run_tool"
    /\ called.name = "calculate"
    /\ called.arguments = Arguments(expression)

\* The expressions of the vocabulary with an identifier, an attribute access or
\* a call in them.
C19_WithNames == {"x", "os.system('x')", "abs(1)", "(1).real", "2**x"}

\* Those with a numeric literal above 1,000,000 in absolute value.
C19_WithLargeLiteral == {"1000001", "-1000001", "1e7", "2000000j"}

\* Those with a power whose exponent is above 8 or is not a literal.
C19_WithLargePower == {"2**9", "2**10", "2**x", "2**-1"}

\* C19: calculate answers with an error result, and evaluates nothing, for an
\* expression with an identifier, an attribute access, a function call, a
\* numeric literal above 1,000,000 in absolute value, or a power whose
\* exponent is above 8 or is not a literal.
C19_UnsafeRejected ==
    \A expression \in C19_WithNames \cup C19_WithLargeLiteral \cup C19_WithLargePower :
        CalculateCalled(expression)
        => /\ ~returned.raised
           /\ returned.result[1] = "status: error"
           /\ ~returned.evaluated

\* C20 as stated: calculate evaluates "2**10" and returns 1024.
C20_PowerEvaluates ==
    CalculateCalled("2**10")
    => /\ ~returned.raised
       /\ returned.evaluated
       /\ returned.result[1] = "result"
       /\ returned.result[2] = IntValue(1024)

\* C20, amended: calculate does not evaluate "2**10"; it answers with an error
\* result.
C20_PowerRejected ==
    CalculateCalled("2**10")
    => /\ ~returned.raised
       /\ ~returned.evaluated
       /\ returned.result[1] = "status: error"

\* calculate was called with "2**10" and answered with the error of the walk
\* over the operator node.
C20_Witness ==
    /\ CalculateCalled("2**10")
    /\ returned.result = ErrorResult("'Pow' object has no attribute 'right'")

\* C17: after construction and after every add_message, clear_conversation,
\* load_from_data and save followed by load, whatever list was loaded (empty,
\* no system entry, system entry not first), the history is not empty and its
\* first entry is a mapping with role "system".
C17_SystemEntryFirst ==
    /\ conversation_history # <<>>
    /\ "role" \in DOMAIN conversation_history[1]
    /\ conversation_history[1].role = "system"

\* A list whose system entry came second was loaded: the stored system entry
\* is first now and the user entry follows.
C17_Witness ==
    /\ called.op = "load_from_data"
    /\ Len(called.data.messages) = 2
    /\ Get(called.data.messages[1], "role") = "user"
    /\ Get(called.data.messages[2], "role") = "system"
    /\ conversation_history = <<called.data.messages[2], called.data.messages[1]>>

C21_Key(plugin) == IF plugin.id # "" THEN plugin.id ELSE plugin.class_name

\* C21: register stores the plugin under instance.id when that id is non-empty
\* and under the name of the instance's class otherwise; the entry stored is
\* made of the call's arguments alone, whatever was stored under the id
\* before; every entry under another id is as it was; and the registry holds
\* no two entries with the same id.
C21_RegisterReplaces ==
    called.op = "register"
        => LET key == C21_Key(called.plugin)
               before == called._plugins
               after == returned._plugins
           IN  /\ {info \in after : info.plugin_id = key}
                      = {[plugin_id |-> key,
                          name |-> IF called.plugin.name # None THEN called.plugin.name
                                   ELSE key,
                          version |-> IF called.plugin.version # None
                                      THEN called.plugin.version ELSE "0.0.0",
                          enabled |-> called.enabled,
                          description |-> called.description,
                          instance |-> called.plugin]}
               /\ {info \in after : info.plugin_id # key}
                      = {info \in before : info.plugin_id # key}
               /\ \A a, b \in after : a.plugin_id = b.plugin_id => a = b

\* A plugin without an id is registered under its class name while another
\* object with another description is stored under that name.
C21_Witness ==
    /\ called.op = "register"
    /\ called.plugin.id = ""
    /\ \E prior \in called._plugins :
           /\ prior.plugin_id = called.plugin.class_name
           /\ prior.instance # called.plugin
           /\ prior.description # called.description
           /\ prior.enabled # called.enabled
    /\ Cardinality(returned._plugins) = Cardinality(called._plugins)

\* C22: every submitted message ends its turn, whatever the path and whatever
\* fails, and the ended turn has shown exactly one thing on the assistant
\* side, an answer or an error; nothing is shown twice and no turn ends
\* having shown nothing.
C22_EveryTurnRendered ==
    /\ []((pc = "Idle" /\ turns > 0)
            => /\ Len(rendered) = 1
               /\ rendered[1].kind \in {"answer", "error"})
    /\ [](pc # "Idle" => rendered = <<>>)
    /\ [](pc # "Idle" => <>(pc = "Idle"))

\* A turn whose tool call raised has ended with the error shown, after a turn
\* whose plugin failed.
C22_Witness ==
    /\ pc = "Idle"
    /\ turns = 2
    /\ rendered = <<Render("error", <<"not JSON serializable">>)>>
    /\ Last(conversation_history).role = "tool"
    /\ \E i \in DOMAIN conversation_history :
           conversation_history[i].content = <<"Weather error:", "plugin failed">>

\* The key is a piece of the text.
Exposes(text) == \E i \in DOMAIN text : text[i] = ApiKey

\* C23: whatever the provider's failure says, the API key is in no text shown
\* on the assistant side and in no entry of the conversation.
C23_KeyNeverExposed ==
    /\ \A i \in DOMAIN rendered : ~Exposes(rendered[i].text)
    /\ \A i \in DOMAIN conversation_history : ~Exposes(conversation_history[i].content)

\* The currencies a token names, in the order of their places in the token;
\* "canadian dollars" names the Canadian dollar only.
TokenCodes(tok) ==
    CASE tok \in {"usd", "dollars"} -> <<"USD">>
      [] tok \in {"eur", "euro"} -> <<"EUR">>
      [] tok = "usd/eur" -> <<"USD", "EUR">>
      [] tok = "canadian dollars" -> <<"CAD">>
      [] OTHER -> <<>>

\* The currencies a text names, from left to right, with repetitions.
RECURSIVE MentionsInOrder(_)
MentionsInOrder(lower) ==
    IF lower = <<>> THEN <<>> ELSE TokenCodes(Head(lower)) \o MentionsInOrder(Tail(lower))

\* The fallback rule applies: no structured pattern matches, a number is in
\* the text and two distinct currencies are named.
FallbackApplies(text) ==
    LET lower == LowerText(text)
    IN  /\ PatternMatch(lower, {"how much is"}, {"in"}) = Nothing
        /\ PatternMatch(lower, {"convert", "exchange", "konvertiruy", "perevedi"},
                        {"to", "v"}) = Nothing
        /\ \E i \in DOMAIN lower : lower[i] \in NumTokens
        /\ Cardinality(Range(MentionsInOrder(lower))) >= 2

\* C24: under the fallback rule the base is the currency named first in the
\* text and the target the next currency named that differs from it.
C24_FallbackLeftToRight ==
    (called.op = "_extract_rate_from_text" /\ FallbackApplies(called.text))
        => LET order == MentionsInOrder(LowerText(called.text))
               others == SelectSeq(order, LAMBDA code : code # order[1])
           IN  /\ returned.value # Nothing
               /\ returned.value[1].base = order[1]
               /\ returned.value[1].target = others[1]

\* The code whose list of names in `mapping` has the name.
CodeOf(name) ==
    CHOOSE code \in Range(MappingOrder) : Lower(name) \in MappingNames(code)

\* C25: "/rate BASE/TARGET AMOUNT" and "/rate BASE TARGET AMOUNT" give base
\* BASE, target TARGET and the amount as a number; "convert A X to Y" and
\* "how much is A X in Y" give the code of X as base, the code of Y as target
\* and the amount A.
C25_SlotsInTheirRoles ==
    /\ called.op = "_parse_rate_command"
           => LET text == called.text
              IN  /\ (Len(text) = 3 /\ text[2] = "USD/eur" /\ text[3] \in NumTokens)
                         => returned.value
                                = RateResult("USD", "eur", Just(NumValue(text[3])), None)
                  /\ (Len(text) = 4 /\ text[2] \in CurrencyNames
                         /\ text[3] \in CurrencyNames /\ text[4] \in NumTokens)
                         => returned.value
                                = RateResult(text[2], text[3], Just(NumValue(text[4])), None)
    /\ called.op = "_extract_rate_from_text"
           => LET text == called.text
              IN  (/\ Len(text) = 5
                   /\ \/ text[1] = "convert" /\ text[4] = "to"
                      \/ text[1] = "how much is" /\ text[4] = "in"
                   /\ text[2] \in NumTokens
                   /\ text[3] \in CurrencyNames
                   /\ text[5] \in CurrencyNames)
                      => returned.value
                             = Just(RateContext(CodeOf(text[3]), CodeOf(text[5]),
                                                Just(NumValue(text[2]))))

\* The entries a step appends to the conversation.
Appended == SubSeq(conversation_history', Len(conversation_history) + 1,
                   Len(conversation_history'))

\* The step that follows a no-tools retry or a follow-up ends the turn: it
\* sends nothing, runs no plugin and appends no tool entry.
EndsAfterSecondRequest ==
    pc \in {"RequestSentNoTools", "FollowupSent", "FollowupSentNoTools"}
        => (/\ pc' = "Idle"
            /\ requests' = requests
            /\ plugin_runs' = plugin_runs
            /\ Len(conversation_history') >= Len(conversation_history)
            /\ \A i \in DOMAIN Appended : Appended[i].role = "assistant")

\* C26: a plain-chat turn sends at most two requests, the second always
\* without tools; the step after a no-tools retry or after the follow-up ends
\* the turn, sending nothing more, running no plugin and appending no tool
\* entry, whatever tool calls the response holds; a message is submitted only
\* when no turn is under way; and every turn ends.
C26_AtMostTwoRequests ==
    /\ [](Len(requests) <= 2)
    /\ [](Len(requests) = 2 => (requests[2].tools = NoTools /\ ~requests[2].stream))
    /\ [][EndsAfterSecondRequest]_vars
    /\ [][turns' # turns => pc = "Idle"]_vars
    /\ [](pc # "Idle" => <>(pc = "Idle"))

\* A turn has ended after a tools rejection and a retry whose response held
\* tool calls: two requests, no plugin run.
C26_Witness ==
    /\ pc = "Idle"
    /\ Len(requests) = 2
    /\ Len(exceptions) = 1
    /\ response.tool_calls # <<>>
    /\ plugin_runs = <<>>
    /\ Last(conversation_history).role = "assistant"


\* The request of the turn under way went out without a tool schema: tool-use
\* is off for the session, or the model is in the unsupported list, or the
\* retry dropped the tools.
WithoutSchema ==
    \/ pc = "RequestSentNoTools"
    \/ /\ pc = "RequestSent"
       /\ \/ ~enable_tools
          \/ \E i \in DOMAIN tools_unsupported_models :
                 tools_unsupported_models[i] = selected_model

\* The step runs no tool: no plugin run, no tool entry appended.
RunsNoTool ==
    /\ plugin_runs' = plugin_runs
    /\ \A i \in DOMAIN Appended : Appended[i].role # "tool"

\* C27: when the request of a turn carried no tool schema, the step that
\* receives its response runs no plugin and no built-in tool and appends no
\* tool entry, whatever tool_calls the response holds.
C27_ToolCallsNeedSchema == [][WithoutSchema => RunsNoTool]_vars

\* The plugin a short-circuit branch runs.
BranchPlugin(path) ==
    CASE path = "rate" -> "exchangerate_plugin"
      [] path = "wiki" -> "wikimedia_plugin"
      [] path = "weather" -> "weather_plugin"
      [] OTHER -> None

\* A submitted prompt runs no plugin whose entry is absent or disabled, and
\* the branch of such a plugin answers that it is not available.
SubmitHonoursEnabled ==
    turns' # turns =>
        \A i \in DOMAIN PluginDirs :
            ~Listed(heap[plugin_registry], PluginDirs[i]) =>
                /\ PluginDirs[i] \notin Range(plugin_runs')
                /\ paths' = {path \in {"rate", "wiki", "weather"} :
                                BranchPlugin(path) = PluginDirs[i]}
                    => Tail(rendered'[1].text) = Tail(NotAvailable(PluginDirs[i]))

\* run_tool runs no plugin whose entry is absent or disabled and returns the
\* error result instead.
DispatchHonoursEnabled ==
    (returned.op = "run_tool" /\ ToolPlugin(called.name) # None
        /\ ~Listed(called._plugins, ToolPlugin(called.name)))
        => /\ returned.ran = None
           /\ ~returned.raised
           /\ returned.result = NotAvailable(ToolPlugin(called.name))

\* C28: no path runs a plugin whose registry entry is absent or has enabled
\* false, neither run_tool nor the rate, weather and wiki branches of
\* chat_page, and each answers that the plugin is not available.
C28_EnabledGoverns == [][SubmitHonoursEnabled]_vars /\ []DispatchHonoursEnabled

\* C29: calculate evaluates a power of two literals whose exponent is within
\* the cap: "2**2" returns 4 and "2**8" returns 256.
C29_PowerWithinCap ==
    \A power \in {<<"2**2", 4>>, <<"2**8", 256>>} :
        CalculateCalled(power[1])
        => /\ ~returned.raised
           /\ returned.evaluated
           /\ returned.result = <<"result", IntValue(power[2])>>

\* The lock set earlier is in force at the time of the step.
LockInForce == admin_lock_until # 0 /\ now < admin_lock_until

\* The failures counted at the time of the step: none once a lock has run out.
FailuresSoFar ==
    IF admin_lock_until # 0 /\ now >= admin_lock_until THEN 0 ELSE admin_failed_attempts

\* A call of require_admin_access in a session that is authenticated returns
\* true and leaves the session as it is.
StaysAuthenticated ==
    admin_authenticated
        => /\ returned'.result
           /\ admin_authenticated'
           /\ UNCHANGED <<admin_failed_attempts, admin_lock_until>>

\* A call while the lock is in force returns false whatever was typed.
LockedOut ==
    (~admin_authenticated /\ LockInForce)
        => /\ ~returned'.result
           /\ ~admin_authenticated'
           /\ UNCHANGED <<admin_failed_attempts, admin_lock_until>>

\* A call with no lock in force: the right password logs in and clears the
\* counter; a wrong one counts one more failure, and the fifth locks for 300
\* seconds; without a click nothing is counted.
LoginOpen ==
    (~admin_authenticated /\ ~LockInForce)
        => IF called'.clicked /\ called'.password = AdminPassword
           THEN /\ returned'.result
                /\ admin_authenticated'
                /\ admin_failed_attempts' = 0
                /\ admin_lock_until' = 0
           ELSE /\ ~returned'.result
                /\ ~admin_authenticated'
                /\ admin_failed_attempts' = FailuresSoFar + (IF called'.clicked THEN 1 ELSE 0)
                /\ admin_lock_until' = IF admin_failed_attempts' = 5 THEN now + 300 ELSE 0

\* C30: in a session not yet authenticated the fifth failure in a row locks
\* the login for 300 seconds; while the lock is in force every call returns
\* false and no password logs in; once the time has passed the counter is
\* back at 0 and login is open; a login clears the counter and the session
\* stays authenticated; the passing of time alone changes nothing.
C30_AdminLockout ==
    /\ [][now' = now => (StaysAuthenticated /\ LockedOut /\ LoginOpen)]_vars
    /\ [][now' # now =>
            UNCHANGED <<admin_authenticated, admin_failed_attempts, admin_lock_until>>]_vars
    /\ [](admin_failed_attempts \in 0..5)
    /\ [](admin_lock_until # 0 <=> admin_failed_attempts = 5)
    /\ [](admin_authenticated => admin_failed_attempts = 0)

\* Five failures at time 1 locked the login until 301; at 300 the right
\* password was typed and the call returned false, the lock still standing.
C30_Witness ==
    /\ called.op = "require_admin_access"
    /\ called.clicked
    /\ called.password = AdminPassword
    /\ called.now = 300
    /\ called.session_state = AdminSession(FALSE, 5, 301)
    /\ ~returned.result
    /\ ~admin_authenticated
    /\ admin_lock_until = 301


=============================================================================
